---- MODULE Spec2Model ----
(***************************************************************************)
(* The hierarchical import pipeline of f1-podium-picks                      *)
(* (backend/app/core/data_import.py), with the fetcher                      *)
(* (backend/app/core/f1_api.py) and the repository (backend/app/db/crud.py) *)
(* it runs on.  Import jobs are sequences of steps; every step is at most   *)
(* one upstream fetch followed by at most one commit.                       *)
(***************************************************************************)
EXTENDS Integers, Sequences, FiniteSets, TLC

VARIABLES
    db,      \* the persisted store: one append-only table per entity
    jobs,    \* the import jobs: each one's call arguments, position and locals
    faults   \* failed fetches and killed jobs so far

vars == <<db, jobs, faults>>

----------------------------------------------------------------------------
(* Bounds of the model *)

\* number of import jobs triggered in one behaviour
MaxJobs == 2

\* number of failed fetches plus killed jobs in one behaviour
MaxFaults == 1

----------------------------------------------------------------------------
(* Python values *)

\* Python None, and an absent dict key; a present value v is <<v>>
None == <<>>

Some(v) == <<v>>

\* dict.get(key, default) on an optional entry
Get(entry, default) == IF entry = None THEN default ELSE entry

\* text of digits is a sequence of one-character strings
DigitVal(c) ==
    CASE c = "0" -> 0 [] c = "1" -> 1 [] c = "2" -> 2 [] c = "3" -> 3
      [] c = "4" -> 4 [] c = "5" -> 5 [] c = "6" -> 6 [] c = "7" -> 7
      [] c = "8" -> 8 [] c = "9" -> 9

DigitChar(n) ==
    CASE n = 0 -> "0" [] n = 1 -> "1" [] n = 2 -> "2" [] n = 3 -> "3"
      [] n = 4 -> "4" [] n = 5 -> "5" [] n = 6 -> "6" [] n = 7 -> "7"
      [] n = 8 -> "8" [] n = 9 -> "9"

Digits == {"0", "1", "2", "3", "4", "5", "6", "7", "8", "9"}

\* whether int(s) accepts the text; it raises ValueError on any other
is_int(s) == Len(s) > 0 /\ \A k \in 1..Len(s) : s[k] \in Digits

RECURSIVE int(_)
\* int("2000"): the digits' value, leading zeros dropped
int(s) ==
    IF Len(s) = 0 THEN 0
    ELSE 10 * int(SubSeq(s, 1, Len(s) - 1)) + DigitVal(s[Len(s)])

\* whether float(s) accepts the text: an optional sign, digits, at most one
\* point; it raises ValueError on any other
is_float(s) ==
    LET body == IF Len(s) > 0 /\ s[1] = "-" THEN Tail(s) ELSE s
    IN /\ \A k \in 1..Len(body) : body[k] \in Digits \cup {"."}
       /\ \E k \in 1..Len(body) : body[k] \in Digits
       /\ Cardinality({k \in 1..Len(body) : body[k] = "."}) <= 1

\* float("45.6"): the sign, the digits and the number of decimal places
float(s) ==
    LET negative == s[1] = "-"
        body == IF negative THEN Tail(s) ELSE s
        points == {k \in 1..Len(body) : body[k] = "."}
    IN [sign |-> IF negative THEN -1 ELSE 1,
        digits |-> int(SelectSeq(body, LAMBDA c : c # ".")),
        places |-> IF points = {} THEN 0
                   ELSE Len(body) - (CHOOSE k \in points : TRUE)]

RECURSIVE str(_)
\* f"{n}" of a non-negative integer
str(n) ==
    IF n < 10 THEN <<DigitChar(n)>>
    ELSE Append(str(n \div 10), DigitChar(n % 10))

\* f"{season_year}-{race_data['round']}"
round_reference_of(season_year, round_text) ==
    str(season_year) \o <<"-">> \o round_text

\* what datetime.strptime(text, "%Y-%m-%d") accepts among the texts upstream sends
ValidDates ==
    [t \in {"1999-09-12", "1999-09-11", "2000-03-12", "2000-03-11",
            "2000-03-26", "2000-03-25", "2000-03-10", "2001-03-04",
            "1968-09-28", "1969-01-03"} |->
        CASE t = "1999-09-12" -> [year |-> 1999, month |-> 9, day |-> 12]
          [] t = "1999-09-11" -> [year |-> 1999, month |-> 9, day |-> 11]
          [] t = "2000-03-12" -> [year |-> 2000, month |-> 3, day |-> 12]
          [] t = "2000-03-11" -> [year |-> 2000, month |-> 3, day |-> 11]
          [] t = "2000-03-10" -> [year |-> 2000, month |-> 3, day |-> 10]
          [] t = "2000-03-26" -> [year |-> 2000, month |-> 3, day |-> 26]
          [] t = "2000-03-25" -> [year |-> 2000, month |-> 3, day |-> 25]
          [] t = "2001-03-04" -> [year |-> 2001, month |-> 3, day |-> 4]
          [] t = "1968-09-28" -> [year |-> 1968, month |-> 9, day |-> 28]
          [] t = "1969-01-03" -> [year |-> 1969, month |-> 1, day |-> 3]]

\* a faulty variant: the text is matched against the pattern, the day is not
\* looked for in the calendar
parse_date_pattern_only(date_str) ==
    IF date_str = None \/ date_str = Some("") THEN None
    ELSE IF date_str[1] \in DOMAIN ValidDates THEN Some(ValidDates[date_str[1]])
    ELSE IF date_str[1] = "2000-02-30"
    THEN Some([year |-> 2000, month |-> 2, day |-> 30])
    ELSE None

\* parse_date: None for an absent or empty text and for a text strptime rejects
parse_date(date_str) ==
    IF date_str = None \/ date_str = Some("") THEN None
    ELSE IF date_str[1] \in DOMAIN ValidDates THEN Some(ValidDates[date_str[1]])
    ELSE None

\* datetime.now().year
CurrentYear == 2001

\* the first season of the "modern era" of import_sessions_for_round
ModernEra == 2000

----------------------------------------------------------------------------
(* The upstream API: what each resource holds *)

NoDict == [date |-> None, time |-> None]

UpSeasons ==
    << [season |-> <<"1","9","9","9">>],
       [season |-> <<"2","0","0","0">>],
       [season |-> <<"2","0","0","1">>] >>

\* Location of a circuit: lat and long as texts, or absent
Monza ==
    [circuitId |-> "monza", circuitName |-> "Monza",
     lat |-> Some(<<"4","5",".","6">>), long |-> Some(<<"9",".","3">>)]

Spa ==
    [circuitId |-> "spa", circuitName |-> "Spa", lat |-> None, long |-> None]

UpCircuits == <<Monza, Spa>>

UpDrivers ==
    << [driverId |-> "hakkinen", permanentNumber |-> None,
        dateOfBirth |-> Some("1968-09-28")],
       [driverId |-> "schumacher", permanentNumber |-> Some(<<"4","7">>),
        dateOfBirth |-> Some("1969-01-03")] >>

\* mclaren is listed twice
UpConstructors ==
    << [constructorId |-> "mclaren"], [constructorId |-> "ferrari"],
       [constructorId |-> "mclaren"] >>

\* 1999 round 1: practice and sprint keys although the year is before 2000,
\* no Qualifying key
Race1999_1 ==
    [round |-> <<"1">>, raceName |-> "Italian GP",
     Circuit |-> Monza,
     date |-> Some("1999-09-12"), time |-> None,
     Qualifying |-> None,
     Sprint |-> Some([date |-> Some("1999-09-11"), time |-> None]),
     FirstPractice |-> Some([date |-> Some("1999-09-11"), time |-> None]),
     SecondPractice |-> Some([date |-> Some("1999-09-11"), time |-> None]),
     ThirdPractice |-> Some([date |-> Some("1999-09-11"), time |-> None])]

\* 2000 round 1: qualifying with a date of its own, third practice, no sprint
Race2000_1 ==
    [round |-> <<"1">>, raceName |-> "Belgian GP",
     Circuit |-> Spa,
     date |-> Some("2000-03-12"), time |-> Some("14:00"),
     Qualifying |-> Some([date |-> Some("2000-03-11"), time |-> Some("13:00")]),
     Sprint |-> None,
     FirstPractice |-> Some([date |-> Some("2000-03-10"), time |-> None]),
     SecondPractice |-> None,
     ThirdPractice |-> Some([date |-> None, time |-> None])]

\* 2000 round 2: the same circuit again, qualifying and sprint without a date
\* of their own, a third practice on a sprint weekend
Race2000_2 ==
    [round |-> <<"2">>, raceName |-> "Spa GP",
     Circuit |-> Spa,
     date |-> Some("2000-03-26"), time |-> None,
     Qualifying |-> Some([date |-> None, time |-> None]),
     Sprint |-> Some([date |-> None, time |-> None]),
     FirstPractice |-> None,
     SecondPractice |-> Some([date |-> Some("2000-03-25"), time |-> None]),
     ThirdPractice |-> Some([date |-> Some("2000-03-25"), time |-> None])]

\* 2001 round 1: no third practice, no sprint, no qualifying results
Race2001_1 ==
    [round |-> <<"1">>, raceName |-> "Monza GP",
     Circuit |-> Monza,
     date |-> Some("2001-03-04"), time |-> None,
     Qualifying |-> None,
     Sprint |-> None,
     FirstPractice |-> None,
     SecondPractice |-> None,
     ThirdPractice |-> None]

UpRaces(season) ==
    CASE season = 1999 -> <<Race1999_1>>
      [] season = 2000 -> <<Race2000_1, Race2000_2>>
      [] season = 2001 -> <<Race2001_1>>
      [] OTHER -> <<>>

\* the same resources on a day upstream sends field texts that do not parse
\* (a year, a latitude, a car number, a round number, dates) and lists the
\* first record twice
DirtySeasons ==
    << [season |-> <<"1","9","9","9">>],
       [season |-> <<"1","9","9","9">>],
       [season |-> <<"2","0","0","x">>],
       [season |-> <<"2","0","0","0">>] >>

DirtyCircuits == << Monza, Monza, [Spa EXCEPT !.lat = Some(<<"n","/","a">>)] >>

DirtyDrivers ==
    << [driverId |-> "hakkinen", permanentNumber |-> None,
        dateOfBirth |-> Some("28/09/1968")],
       [driverId |-> "hakkinen", permanentNumber |-> None,
        dateOfBirth |-> Some("1968-09-28")],
       [driverId |-> "schumacher", permanentNumber |-> Some(<<"4","7","a">>),
        dateOfBirth |-> Some("1969-01-03")] >>

DirtyRaces(season) ==
    CASE season = 1999 -> << [Race1999_1 EXCEPT !.date = Some("12/09/1999")] >>
      [] season = 2000 -> << [Race2000_1 EXCEPT !.date = Some("2000-02-30")],
                             [Race2000_1 EXCEPT !.date = Some("2000-02-30")],
                             [Race2000_2 EXCEPT !.round = <<"I","I">>] >>
      [] OTHER -> UpRaces(season)

\* QualifyingResults of a race (one entry stands for the list)
UpQualifying(season, round_num) ==
    IF (season = 1999 /\ round_num = 1) \/ (season = 2000 /\ round_num \in {1, 2})
    THEN <<[position |-> 1]>> ELSE <<>>

\* SprintResults of a race
UpSprint(season, round_num) ==
    IF (season = 1999 /\ round_num = 1) \/ (season = 2000 /\ round_num = 2)
    THEN <<[position |-> 1]>> ELSE <<>>

\* DriverStandings of a season: each driver with the constructors driven for;
\* those of 2000 list schumacher with ferrari twice
UpStandings(season) ==
    CASE season = 1999 ->
           << [Driver |-> [driverId |-> "hakkinen"],
               Constructors |-> <<[constructorId |-> "mclaren"]>>] >>
      [] season = 2000 ->
           << [Driver |-> [driverId |-> "schumacher"],
               Constructors |-> <<[constructorId |-> "ferrari"]>>],
              [Driver |-> [driverId |-> "verstappen"],
               Constructors |-> <<[constructorId |-> "ferrari"]>>],
              [Driver |-> [driverId |-> "schumacher"],
               Constructors |-> <<[constructorId |-> "ferrari"]>>] >>
      [] OTHER -> <<>>

----------------------------------------------------------------------------
(* The fetcher (f1_api.py) *)

\* what one GET can end in: a 200 with the expected envelope, a status other
\* than 200, an exception in transport or decoding, a 200 whose JSON lacks the
\* expected key path
Responses == {"ok", "http_error", "exception", "bad_shape"}

\* two more: a 200 whose JSON holds, somewhere on the expected key path, a
\* value that is no object (null, a list, a text); a 200 with the expected
\* envelope whose records carry field texts that do not parse
OddResponses == {"wrong_type", "malformed"}

\* a faulty variant: the body is handed on whatever the status
fetch_data_unchecked(resp, envelope) ==
    [error |-> FALSE, object |-> TRUE, body |-> Some(envelope)]

\* fetch_data: the parsed body, or {"error": ...}; `object` tells whether the
\* values on the key path are dicts, body is what lies at the end of the path
fetch_data(resp, envelope) ==
    CASE resp \in {"ok", "malformed"} ->
            [error |-> FALSE, object |-> TRUE, body |-> Some(envelope)]
      [] resp = "bad_shape" -> [error |-> FALSE, object |-> TRUE, body |-> None]
      [] resp = "wrong_type" -> [error |-> FALSE, object |-> FALSE, body |-> None]
      [] OTHER -> [error |-> TRUE, object |-> TRUE, body |-> None]

\* data["MRData"][...] on a value that is no dict raises TypeError, which the
\* `except KeyError` / `except (KeyError, IndexError)` of fetch_* lets through
raises(data) == ~data.error /\ ~data.object

\* the common tail of every fetch_*: [] on "error", [] on KeyError/IndexError
extract(data) ==
    IF data.error THEN <<>>
    ELSE IF data.body = None THEN <<>>
    ELSE data.body[1]

fetch_seasons(resp) == extract(fetch_data(resp, UpSeasons))

fetch_circuits(resp) == extract(fetch_data(resp, UpCircuits))

fetch_drivers(resp) == extract(fetch_data(resp, UpDrivers))

fetch_constructors(resp) == extract(fetch_data(resp, UpConstructors))

fetch_races(resp, season) == extract(fetch_data(resp, UpRaces(season)))

fetch_qualifying_results(resp, season, round_num) ==
    extract(fetch_data(resp, UpQualifying(season, round_num)))

fetch_sprint_results(resp, season, round_num) ==
    extract(fetch_data(resp, UpSprint(season, round_num)))

RECURSIVE pairings(_, _)
\* the nested loops of fetch_driver_constructor_by_season
pairings(standings, season) ==
    IF standings = <<>> THEN <<>>
    ELSE LET ds == Head(standings)
         IN [k \in 1..Len(ds.Constructors) |->
                [driverId |-> ds.Driver.driverId,
                 constructorId |-> ds.Constructors[k].constructorId,
                 season |-> season]]
            \o pairings(Tail(standings), season)

fetch_driver_constructor_by_season(resp, season) ==
    pairings(extract(fetch_data(resp, UpStandings(season))), season)

----------------------------------------------------------------------------
(* The repository (crud.py) over the tables of models.py *)

EmptyDb ==
    [season |-> <<>>, circuit |-> <<>>, driver |-> <<>>, team |-> <<>>,
     round |-> <<>>, session |-> <<>>, team_driver |-> <<>>]

\* .first() of a filtered query, hits being the positions of the rows that
\* pass the filter: None, or the matching row of lowest id
first(table, hits) ==
    IF hits = {} THEN None
    ELSE Some(table[CHOOSE k \in hits : \A m \in hits : k <= m])

get_season_by_year(d, year) ==
    first(d.season, {k \in 1..Len(d.season) : d.season[k].year = year})

get_circuit_by_reference(d, reference) ==
    first(d.circuit, {k \in 1..Len(d.circuit) : d.circuit[k].reference = reference})

get_driver_by_reference(d, reference) ==
    first(d.driver, {k \in 1..Len(d.driver) : d.driver[k].reference = reference})

get_team_by_reference(d, reference) ==
    first(d.team, {k \in 1..Len(d.team) : d.team[k].reference = reference})

get_round_by_reference(d, reference) ==
    first(d.round, {k \in 1..Len(d.round) : d.round[k].reference = reference})

\* a faulty variant: the pairing is never found
get_team_driver_none(d, team_id, driver_id, season_year) == None

\* the query of import_team_drivers_for_season for an existing pairing
get_team_driver(d, team_id, driver_id, season_year) ==
    first(d.team_driver,
          {k \in 1..Len(d.team_driver) :
              /\ d.team_driver[k].team_id = team_id
              /\ d.team_driver[k].driver_id = driver_id
              /\ d.team_driver[k].season_year = season_year})

\* the id the store assigns to the next row of a table: one more than the
\* highest id it holds
next_id(table) ==
    IF table = <<>> THEN 1
    ELSE 1 + (CHOOSE n \in {table[k].id : k \in 1..Len(table)} :
                 \A k \in 1..Len(table) : table[k].id <= n)

\* unique=True of models.py: Season.year, and reference of Circuit, Driver,
\* Team and Round; Session and TeamDriver carry no uniqueness constraint
unique_ok(d, table, fields) ==
    CASE table = "season" -> \A k \in 1..Len(d.season) : d.season[k].year # fields.year
      [] table \in {"circuit", "driver", "team", "round"} ->
            \A k \in 1..Len(d[table]) : d[table][k].reference # fields.reference
      [] OTHER -> TRUE

\* a faulty variant: the new row takes the place of the rows of its table
create_replacing(d, table, fields) ==
    [d EXCEPT ![table] = <<[id |-> 1] @@ fields>>]

\* create_*: add, commit, refresh; the row comes back with its id
create(d, table, fields) ==
    [d EXCEPT ![table] = Append(@, [id |-> next_id(@)] @@ fields)]

----------------------------------------------------------------------------
(* Import jobs (data_import.py), started as background tasks (routers/f1.py) *)

JobIds == 1..MaxJobs

Finished == {"returned", "raised", "killed"}

ZeroResults ==
    [seasons |-> 0, circuits |-> 0, drivers |-> 0, teams |-> 0,
     rounds |-> 0, team_drivers |-> 0]

\* the locals of import_sessions_for_round
NoSess ==
    [round_num |-> 0, round_id |-> 0, race_info |-> None, count |-> 0,
     quali_data |-> <<>>, sprint_data |-> <<>>,
     first |-> 0]     \* rows of the session table when the call began

\* the number of rows of every table
Sizes(d) == [t \in DOMAIN d |-> Len(d[t])]

\* a job not yet triggered
IdleJob ==
    [routine |-> "none",      \* the routine the endpoint enqueued
     status |-> "idle",       \* idle, running, returned, raised, killed
     ack |-> "none",          \* "status" of the response the endpoint gave
     start_year |-> 0, end_year |-> 0,
     end_given |-> None,      \* end_year as the caller passed it
     season_year |-> 0,       \* the year argument, or import_all's loop variable
     cur |-> "none",          \* the import routine now executing
     pc |-> "none",           \* its position
     data |-> <<>>,           \* the list it fetched
     i |-> 0,                 \* index of the record the loop is at
     count |-> 0,
     season_id |-> 0,         \* season.id, circuit.id of import_rounds_for_season
     circuit_id |-> 0,
     sess |-> NoSess,
     results |-> ZeroResults, \* import_all_f1_data's results
     ret |-> 0,               \* the value returned by a single routine
     error |-> "none",        \* the exception a raised job died of
     table |-> "none",        \* of a repository call: the table, the argument
     arg |-> 0,               \* and the row it gave back
     row |-> None,
     seen |-> "none",         \* "status" of the body a poll of the import
                              \* status was answered with
     flog |-> {},             \* the list fetches issued, each with its success
     failed |-> 0,            \* the fetches of this job that failed
     calls |-> <<>>,          \* its completed calls of import_sessions_for_round
     pre |-> Sizes(EmptyDb),  \* table sizes when the job began
     cpre |-> Sizes(EmptyDb)] \* table sizes when the routine at `cur` began

\* `if not end_year: end_year = datetime.now().year`
default_end_year(end_year) ==
    IF end_year = None \/ end_year = Some(0) THEN CurrentYear ELSE end_year[1]

\* the state of a job as its routine is entered
Begin(d, routine, cur, start_year, end_year, season_year) ==
    [IdleJob EXCEPT !.routine = routine, !.status = "running", !.cur = cur,
                    !.ack = "in_progress",
                    !.start_year = start_year,
                    !.end_year = IF routine \in {"all", "seasons"}
                                 THEN default_end_year(end_year) ELSE 0,
                    !.end_given = end_year,
                    !.season_year = season_year, !.pc = "fetch",
                    !.pre = Sizes(d), !.cpre = Sizes(d)]

\* jobs run one after the other: a job is triggered once the earlier ones ended
CanStart(j) ==
    /\ jobs[j].status = "idle"
    /\ \A k \in JobIds : k < j => jobs[k].status \in Finished

Running(j) == jobs[j].status = "running"

\* the arguments the endpoints are called with
StartYears == {1999, 2000}

EndYears == {None, Some(0), Some(1999), Some(2000)}

SeasonYears == {1999, 2000}

Fetched(resource, season, round_num, resp) ==
    [resource |-> resource, season |-> season, round_num |-> round_num,
     ok |-> (resp \in {"ok", "malformed"})]

\* a failed fetch counts against the fault budget of the behaviour
FaultOk(resp) == resp = "ok" \/ faults < MaxFaults

FaultsAfter(resp) == IF resp = "ok" THEN faults ELSE faults + 1

\* the job after one of the fetches of import_sessions_for_round
Noted(jb, resp) == [jb EXCEPT !.failed = IF resp = "ok" THEN @ ELSE @ + 1]

\* a faulty variant: the outcome of the job goes into the response
EndedReporting(jb, status) ==
    [jb EXCEPT !.status = status, !.ack = status, !.cur = "none", !.pc = "done",
               !.data = <<>>, !.i = 0, !.count = 0, !.season_id = 0,
               !.circuit_id = 0, !.cpre = Sizes(EmptyDb),
               !.sess = [NoSess EXCEPT !.round_num = jb.sess.round_num,
                                       !.round_id = jb.sess.round_id]]

\* a job that ended: its arguments, its result and its fetch log remain, the
\* locals of its routines are gone
Ended(jb, status) ==
    [jb EXCEPT !.status = status, !.cur = "none", !.pc = "done", !.data = <<>>,
               !.i = 0, !.count = 0, !.season_id = 0, !.circuit_id = 0,
               !.cpre = Sizes(EmptyDb),
               !.sess = [NoSess EXCEPT !.round_num = jb.sess.round_num,
                                       !.round_id = jb.sess.round_id]]

\* a faulty variant: the routine logs the exception and returns its count
RaiseCaught(jb, error) == [jb EXCEPT !.error = error, !.pc = "ret"]

\* an exception leaves the routine and, nothing catching it, ends the job
Raise(jb, error) == [Ended(jb, "raised") EXCEPT !.error = error]

\* the loop moves to the next record, or ends
Advance(jb) ==
    IF jb.i >= Len(jb.data) THEN [jb EXCEPT !.pc = "ret"]
    ELSE [jb EXCEPT !.i = @ + 1, !.pc = "loop"]

\* a faulty variant: `break`
SkipRest(d, jb) == [db |-> d, job |-> [jb EXCEPT !.pc = "ret"]]

\* `continue`
Skip(d, jb) == [db |-> d, job |-> Advance(jb)]

\* crud.create_*, after which the job is at `after`; an insert the store
\* rejects raises out of the routine
CreateThen(d, jb, table, fields, after) ==
    IF unique_ok(d, table, fields)
    THEN [db |-> create(d, table, fields), job |-> after]
    ELSE [db |-> d, job |-> Raise(jb, "IntegrityError")]

\* crud.create_* then `count += 1`
CreateAndCount(d, jb, table, fields) ==
    CreateThen(d, jb, table, fields, Advance([jb EXCEPT !.count = @ + 1]))

\* a faulty variant: a fetch that failed raises out of the routine
LoopOrRaise(jb, data, entry) ==
    IF ~entry.ok
    THEN Raise([jb EXCEPT !.flog = @ \cup {entry}, !.failed = @ + 1], "ClientError")
    ELSE [jb EXCEPT !.data = data, !.i = 1, !.count = 0,
                    !.pc = IF data = <<>> THEN "ret" ELSE "loop",
                    !.flog = @ \cup {entry}]

\* a faulty variant: the list is walked from its end
LoopReversed(jb, data, entry) ==
    [jb EXCEPT !.data = [k \in 1..Len(data) |-> data[Len(data) + 1 - k]],
               !.i = 1, !.count = 0,
               !.pc = IF data = <<>> THEN "ret" ELSE "loop",
               !.flog = @ \cup {entry},
               !.failed = IF entry.ok THEN @ ELSE @ + 1]

\* the list a routine loops over, after `count = 0`
Loop(jb, data, entry) ==
    [jb EXCEPT !.data = data, !.i = 1, !.count = 0,
               !.pc = IF data = <<>> THEN "ret" ELSE "loop",
               !.flog = @ \cup {entry},
               !.failed = IF entry.ok THEN @ ELSE @ + 1]

\* the same after a fetch that may raise instead of returning a list
LoopOdd(jb, data, entry) ==
    IF raises(data)
    THEN Raise([jb EXCEPT !.flog = @ \cup {entry}, !.failed = @ + 1], "TypeError")
    ELSE Loop(jb, extract(data), entry)

Apply(j, r) ==
    /\ db' = r.db
    /\ jobs' = [jobs EXCEPT ![j] = r.job]

(* POST import/seasons *)
TriggerImportSeasons(j) ==
    /\ CanStart(j)
    /\ \E s \in StartYears, e \in EndYears :
         jobs' = [jobs EXCEPT ![j] =
                    Begin(db, "seasons", "seasons", s, e, 0)]
    /\ UNCHANGED <<db, faults>>

(* POST import/circuits, import/drivers, import/teams *)
TriggerImportCircuits(j) ==
    /\ CanStart(j)
    /\ jobs' = [jobs EXCEPT ![j] = Begin(db, "circuits", "circuits", 0, None, 0)]
    /\ UNCHANGED <<db, faults>>

TriggerImportDrivers(j) ==
    /\ CanStart(j)
    /\ jobs' = [jobs EXCEPT ![j] = Begin(db, "drivers", "drivers", 0, None, 0)]
    /\ UNCHANGED <<db, faults>>

TriggerImportTeams(j) ==
    /\ CanStart(j)
    /\ jobs' = [jobs EXCEPT ![j] = Begin(db, "teams", "teams", 0, None, 0)]
    /\ UNCHANGED <<db, faults>>

(* import_seasons *)
ImportSeasonsFetch(j) ==
    /\ Running(j) /\ jobs[j].cur = "seasons" /\ jobs[j].pc = "fetch"
    /\ \E resp \in Responses :
         /\ FaultOk(resp)
         /\ jobs' = [jobs EXCEPT ![j] =
                Loop(@, fetch_seasons(resp), Fetched("seasons", 0, 0, resp))]
         /\ faults' = FaultsAfter(resp)
    /\ UNCHANGED db

\* a faulty variant: end_year is excluded from the range
season_record_exclusive(d, jb) ==
    LET season_data == jb.data[jb.i]
        season_year == int(season_data.season)
    IN IF season_year < jb.start_year \/ season_year >= jb.end_year
       THEN Skip(d, jb)
       ELSE IF get_season_by_year(d, season_year) # None
       THEN Skip(d, jb)
       ELSE CreateAndCount(d, jb, "season", [year |-> season_year])

season_record(d, jb) ==
    LET season_data == jb.data[jb.i]
        season_year == int(season_data.season)
    IN IF ~is_int(season_data.season)
       THEN [db |-> d, job |-> Raise(jb, "ValueError")]
       ELSE IF season_year < jb.start_year \/ season_year > jb.end_year
       THEN Skip(d, jb)
       ELSE IF get_season_by_year(d, season_year) # None
       THEN Skip(d, jb)
       ELSE CreateAndCount(d, jb, "season", [year |-> season_year])

ImportSeasonsRecord(j) ==
    /\ Running(j) /\ jobs[j].cur = "seasons" /\ jobs[j].pc = "loop"
    /\ Apply(j, season_record(db, jobs[j]))
    /\ UNCHANGED faults

\* the fetch on a day upstream answers oddly
ImportSeasonsFetchOdd(j) ==
    /\ Running(j) /\ jobs[j].cur = "seasons" /\ jobs[j].pc = "fetch"
    /\ faults < MaxFaults
    /\ \E resp \in OddResponses :
         jobs' = [jobs EXCEPT ![j] =
                    LoopOdd(@, fetch_data(resp, DirtySeasons),
                            Fetched("seasons", 0, 0, resp))]
    /\ faults' = faults + 1
    /\ UNCHANGED db

(* import_circuits *)
ImportCircuitsFetch(j) ==
    /\ Running(j) /\ jobs[j].cur = "circuits" /\ jobs[j].pc = "fetch"
    /\ \E resp \in Responses :
         /\ FaultOk(resp)
         /\ jobs' = [jobs EXCEPT ![j] =
                Loop(@, fetch_circuits(resp), Fetched("circuits", 0, 0, resp))]
         /\ faults' = FaultsAfter(resp)
    /\ UNCHANGED db

\* schemas.CircuitCreate(...) of import_circuits and of import_rounds_for_season
\* `float(location.get(key, 0)) if location.get(key) else None`
coordinate(text) ==
    IF text = None \/ text = Some(<<>>) THEN None ELSE Some(float(text[1]))

\* whether that expression evaluates, float() accepting the text
coordinate_ok(text) == text = None \/ text = Some(<<>>) \/ is_float(text[1])

circuit_fields(circuit_data) ==
    [reference |-> circuit_data.circuitId, name |-> circuit_data.circuitName,
     country_code |-> None,
     latitude |-> coordinate(circuit_data.lat),
     longitude |-> coordinate(circuit_data.long),
     altitude |-> None]

\* a faulty variant: a circuit is looked for among the rows the store held
\* when the routine began
circuit_record_stale(d, jb) ==
    LET circuit_data == jb.data[jb.i]
        then == [d EXCEPT !.circuit = SubSeq(@, 1, jb.cpre.circuit)]
    IN IF get_circuit_by_reference(then, circuit_data.circuitId) # None
       THEN Skip(d, jb)
       ELSE CreateAndCount(d, jb, "circuit", circuit_fields(circuit_data))

circuit_record(d, jb) ==
    LET circuit_data == jb.data[jb.i]
    IN IF get_circuit_by_reference(d, circuit_data.circuitId) # None
       THEN Skip(d, jb)
       ELSE IF ~(coordinate_ok(circuit_data.lat) /\ coordinate_ok(circuit_data.long))
       THEN [db |-> d, job |-> Raise(jb, "ValueError")]
       ELSE CreateAndCount(d, jb, "circuit", circuit_fields(circuit_data))

ImportCircuitsRecord(j) ==
    /\ Running(j) /\ jobs[j].cur = "circuits" /\ jobs[j].pc = "loop"
    /\ Apply(j, circuit_record(db, jobs[j]))
    /\ UNCHANGED faults

ImportCircuitsFetchOdd(j) ==
    /\ Running(j) /\ jobs[j].cur = "circuits" /\ jobs[j].pc = "fetch"
    /\ faults < MaxFaults
    /\ \E resp \in OddResponses :
         jobs' = [jobs EXCEPT ![j] =
                    LoopOdd(@, fetch_data(resp, DirtyCircuits),
                            Fetched("circuits", 0, 0, resp))]
    /\ faults' = faults + 1
    /\ UNCHANGED db

(* import_drivers *)
ImportDriversFetch(j) ==
    /\ Running(j) /\ jobs[j].cur = "drivers" /\ jobs[j].pc = "fetch"
    /\ \E resp \in Responses :
         /\ FaultOk(resp)
         /\ jobs' = [jobs EXCEPT ![j] =
                Loop(@, fetch_drivers(resp), Fetched("drivers", 0, 0, resp))]
         /\ faults' = FaultsAfter(resp)
    /\ UNCHANGED db

driver_record(d, jb) ==
    LET driver_data == jb.data[jb.i]
    IN IF get_driver_by_reference(d, driver_data.driverId) # None
       THEN Skip(d, jb)
       ELSE IF driver_data.permanentNumber # None
               /\ ~is_int(driver_data.permanentNumber[1])
       THEN [db |-> d, job |-> Raise(jb, "ValueError")]
       ELSE CreateAndCount(d, jb, "driver",
                [reference |-> driver_data.driverId,
                 permanent_car_number |->
                     IF driver_data.permanentNumber = None THEN None
                     ELSE Some(int(driver_data.permanentNumber[1])),
                 date_of_birth |-> parse_date(driver_data.dateOfBirth)])

ImportDriversRecord(j) ==
    /\ Running(j) /\ jobs[j].cur = "drivers" /\ jobs[j].pc = "loop"
    /\ Apply(j, driver_record(db, jobs[j]))
    /\ UNCHANGED faults

ImportDriversFetchOdd(j) ==
    /\ Running(j) /\ jobs[j].cur = "drivers" /\ jobs[j].pc = "fetch"
    /\ faults < MaxFaults
    /\ \E resp \in OddResponses :
         jobs' = [jobs EXCEPT ![j] =
                    LoopOdd(@, fetch_data(resp, DirtyDrivers),
                            Fetched("drivers", 0, 0, resp))]
    /\ faults' = faults + 1
    /\ UNCHANGED db

(* import_teams *)
ImportTeamsFetch(j) ==
    /\ Running(j) /\ jobs[j].cur = "teams" /\ jobs[j].pc = "fetch"
    /\ \E resp \in Responses :
         /\ FaultOk(resp)
         /\ jobs' = [jobs EXCEPT ![j] =
                Loop(@, fetch_constructors(resp),
                     Fetched("constructors", 0, 0, resp))]
         /\ faults' = FaultsAfter(resp)
    /\ UNCHANGED db

\* a faulty variant: constructor_id is left unset
team_record_unkeyed(d, jb) ==
    LET constructor_data == jb.data[jb.i]
        constructor_reference == constructor_data.constructorId
    IN IF get_team_by_reference(d, constructor_reference) # None
       THEN Skip(d, jb)
       ELSE CreateAndCount(d, jb, "team",
                [reference |-> constructor_reference, country_code |-> None,
                 constructor_id |-> None])

team_record(d, jb) ==
    LET constructor_data == jb.data[jb.i]
        constructor_reference == constructor_data.constructorId
    IN IF get_team_by_reference(d, constructor_reference) # None
       THEN Skip(d, jb)
       ELSE CreateAndCount(d, jb, "team",
                [reference |-> constructor_reference, country_code |-> None,
                 constructor_id |-> constructor_reference])

ImportTeamsRecord(j) ==
    /\ Running(j) /\ jobs[j].cur = "teams" /\ jobs[j].pc = "loop"
    /\ Apply(j, team_record(db, jobs[j]))
    /\ UNCHANGED faults

(* POST import/rounds/{season_year} *)
TriggerImportRounds(j) ==
    /\ CanStart(j)
    /\ \E y \in SeasonYears :
         jobs' = [jobs EXCEPT ![j] = Begin(db, "rounds", "rounds", 0, None, y)]
    /\ UNCHANGED <<db, faults>>

\* a faulty variant: the races are fetched whether or not the Season exists
ImportRoundsFetchUngated(j) ==
    /\ Running(j) /\ jobs[j].cur = "rounds" /\ jobs[j].pc = "fetch"
    /\ LET season == get_season_by_year(db, jobs[j].season_year)
       IN \E resp \in Responses :
             /\ FaultOk(resp)
             /\ jobs' = [jobs EXCEPT ![j] =
                    Loop([@ EXCEPT !.season_id =
                                     IF season = None THEN 0 ELSE season[1].id],
                         fetch_races(resp, @.season_year),
                         Fetched("races", @.season_year, 0, resp))]
             /\ faults' = FaultsAfter(resp)
    /\ UNCHANGED db

(* import_rounds_for_season: the Season lookup and the race-list fetch *)
ImportRoundsFetch(j) ==
    /\ Running(j) /\ jobs[j].cur = "rounds" /\ jobs[j].pc = "fetch"
    /\ LET season == get_season_by_year(db, jobs[j].season_year)
       IN IF season = None
          THEN /\ jobs' = [jobs EXCEPT ![j].count = 0, ![j].pc = "ret"]
               /\ faults' = faults
          ELSE \E resp \in Responses :
                 /\ FaultOk(resp)
                 /\ jobs' = [jobs EXCEPT ![j] =
                        Loop([@ EXCEPT !.season_id = season[1].id],
                             fetch_races(resp, @.season_year),
                             Fetched("races", @.season_year, 0, resp))]
                 /\ faults' = FaultsAfter(resp)
    /\ UNCHANGED db

ImportRoundsFetchOdd(j) ==
    /\ Running(j) /\ jobs[j].cur = "rounds" /\ jobs[j].pc = "fetch"
    /\ faults < MaxFaults
    /\ LET season == get_season_by_year(db, jobs[j].season_year)
       IN /\ season # None
          /\ \E resp \in OddResponses :
               jobs' = [jobs EXCEPT ![j] =
                          LoopOdd([@ EXCEPT !.season_id = season[1].id],
                                  fetch_data(resp, DirtyRaces(@.season_year)),
                                  Fetched("races", @.season_year, 0, resp))]
    /\ faults' = faults + 1
    /\ UNCHANGED db

\* a faulty variant: a circuit that is not found is not created
race_circuit_lookup(d, jb) ==
    LET race_data == jb.data[jb.i]
        circuit == get_circuit_by_reference(d, race_data.Circuit.circuitId)
    IN [db |-> d,
        job |-> [jb EXCEPT !.circuit_id =
                              IF circuit = None THEN 0 ELSE circuit[1].id,
                           !.pc = "round"]]

\* a faulty variant: the circuit is resolved only where the Round is new
race_circuit_after_round(d, jb) ==
    LET race_data == jb.data[jb.i]
        circuit == get_circuit_by_reference(d, race_data.Circuit.circuitId)
        existing_round == get_round_by_reference(d,
                              round_reference_of(jb.season_year, race_data.round))
    IN IF circuit = None /\ existing_round = None
       THEN CreateThen(d, jb, "circuit", circuit_fields(race_data.Circuit),
              [jb EXCEPT !.circuit_id = next_id(d.circuit), !.pc = "round"])
       ELSE [db |-> d,
             job |-> [jb EXCEPT !.circuit_id =
                                   IF circuit = None THEN 0 ELSE circuit[1].id,
                                !.pc = "round"]]

\* "Get or create circuit" for the race the loop is at
race_circuit(d, jb) ==
    LET race_data == jb.data[jb.i]
        circuit == get_circuit_by_reference(d, race_data.Circuit.circuitId)
    IN IF circuit = None
       THEN IF ~(coordinate_ok(race_data.Circuit.lat)
                 /\ coordinate_ok(race_data.Circuit.long))
            THEN [db |-> d, job |-> Raise(jb, "ValueError")]
            ELSE CreateThen(d, jb, "circuit", circuit_fields(race_data.Circuit),
                   [jb EXCEPT !.circuit_id = next_id(d.circuit), !.pc = "round"])
       ELSE [db |-> d,
             job |-> [jb EXCEPT !.circuit_id = circuit[1].id, !.pc = "round"]]

ImportRoundsCircuit(j) ==
    /\ Running(j) /\ jobs[j].cur = "rounds" /\ jobs[j].pc = "loop"
    /\ Apply(j, race_circuit(db, jobs[j]))
    /\ UNCHANGED faults

\* a faulty variant: the Round and its race session go in with one commit
race_round_with_session(d, jb) ==
    LET race_data == jb.data[jb.i]
        round_reference == round_reference_of(jb.season_year, race_data.round)
        row == [reference |-> round_reference,
                round_number |-> int(race_data.round),
                date |-> parse_date(Get(race_data.date, None)),
                time |-> Get(race_data.time, None),
                season_id |-> jb.season_id,
                circuit_id |-> jb.circuit_id]
    IN IF get_round_by_reference(d, round_reference) # None
       THEN Skip(d, jb)
       ELSE [db |-> create(create(d, "round", row), "session",
                           [session_type |-> "race", date |-> row.date,
                            time |-> row.time, status |-> "completed",
                            round_id |-> next_id(d.round)]),
             job |-> [jb EXCEPT !.count = @ + 1, !.pc = "s_fetch",
                                !.sess = [NoSess EXCEPT
                                             !.round_num = int(race_data.round),
                                             !.round_id = next_id(d.round),
                                             !.first = Len(d.session)]]]

\* a faulty variant: import_sessions_for_round is called for a Round that
\* exists as it is for one just created
race_round_sessions_always(d, jb) ==
    LET race_data == jb.data[jb.i]
        round_reference == round_reference_of(jb.season_year, race_data.round)
        existing == get_round_by_reference(d, round_reference)
    IN IF existing # None
       THEN [db |-> d,
             job |-> [jb EXCEPT !.pc = "s_fetch",
                                !.sess = [NoSess EXCEPT
                                             !.round_num = int(race_data.round),
                                             !.round_id = existing[1].id,
                                             !.first = Len(d.session)]]]
       ELSE CreateThen(d, jb, "round",
                [reference |-> round_reference,
                 round_number |-> int(race_data.round),
                 date |-> parse_date(Get(race_data.date, None)),
                 time |-> Get(race_data.time, None),
                 season_id |-> jb.season_id,
                 circuit_id |-> jb.circuit_id],
                [jb EXCEPT !.count = @ + 1, !.pc = "s_fetch",
                           !.sess = [NoSess EXCEPT
                                        !.round_num = int(race_data.round),
                                        !.round_id = next_id(d.round),
                                        !.first = Len(d.session)]])

\* a faulty variant: the Round is looked for among the rows the store held
\* when the routine began
race_round_stale(d, jb) ==
    LET race_data == jb.data[jb.i]
        round_reference == round_reference_of(jb.season_year, race_data.round)
        then == [d EXCEPT !.round = SubSeq(@, 1, jb.cpre.round)]
    IN IF get_round_by_reference(then, round_reference) # None
       THEN Skip(d, jb)
       ELSE CreateThen(d, jb, "round",
                [reference |-> round_reference,
                 round_number |-> int(race_data.round),
                 date |-> parse_date(Get(race_data.date, None)),
                 time |-> Get(race_data.time, None),
                 season_id |-> jb.season_id,
                 circuit_id |-> jb.circuit_id],
                [jb EXCEPT !.count = @ + 1, !.pc = "s_fetch",
                           !.sess = [NoSess EXCEPT
                                        !.round_num = int(race_data.round),
                                        !.round_id = next_id(d.round),
                                        !.first = Len(d.session)]])

\* a faulty variant: the Round is filed under the first Season of the store
race_round_first_season(d, jb) ==
    LET race_data == jb.data[jb.i]
        round_reference == round_reference_of(jb.season_year, race_data.round)
    IN IF get_round_by_reference(d, round_reference) # None
       THEN Skip(d, jb)
       ELSE CreateThen(d, jb, "round",
                [reference |-> round_reference,
                 round_number |-> int(race_data.round),
                 date |-> parse_date(Get(race_data.date, None)),
                 time |-> Get(race_data.time, None),
                 season_id |-> 1,
                 circuit_id |-> jb.circuit_id],
                [jb EXCEPT !.count = @ + 1, !.pc = "s_fetch",
                           !.sess = [NoSess EXCEPT
                                        !.round_num = int(race_data.round),
                                        !.round_id = next_id(d.round),
                                        !.first = Len(d.session)]])

\* "Create round" for that race, and the call of import_sessions_for_round
race_round(d, jb) ==
    LET race_data == jb.data[jb.i]
        round_reference == round_reference_of(jb.season_year, race_data.round)
    IN IF get_round_by_reference(d, round_reference) # None
       THEN Skip(d, jb)
       ELSE IF ~is_int(race_data.round)
       THEN [db |-> d, job |-> Raise(jb, "ValueError")]
       ELSE CreateThen(d, jb, "round",
                [reference |-> round_reference,
                 round_number |-> int(race_data.round),
                 date |-> parse_date(Get(race_data.date, None)),
                 time |-> Get(race_data.time, None),
                 season_id |-> jb.season_id,
                 circuit_id |-> jb.circuit_id],
                [jb EXCEPT !.count = @ + 1, !.pc = "s_fetch",
                           !.sess = [NoSess EXCEPT
                                        !.round_num = int(race_data.round),
                                        !.round_id = next_id(d.round),
                                        !.first = Len(d.session)]])

ImportRoundsRound(j) ==
    /\ Running(j) /\ jobs[j].cur = "rounds" /\ jobs[j].pc = "round"
    /\ Apply(j, race_round(db, jobs[j]))
    /\ UNCHANGED faults

(* import_sessions_for_round called on its own, for a Round of the store *)
CallImportSessions(j) ==
    /\ CanStart(j)
    /\ \E k \in 1..Len(db.round) :
         LET season == first(db.season, {m \in 1..Len(db.season) :
                                           db.season[m].id = db.round[k].season_id})
         IN jobs' = [jobs EXCEPT ![j] =
                [Begin(db, "sessions", "sessions", 0, None, season[1].year)
                   EXCEPT !.pc = "s_fetch", !.ack = "none",
                          !.sess = [NoSess EXCEPT
                                       !.round_num = db.round[k].round_number,
                                       !.round_id = db.round[k].id,
                                       !.first = Len(db.session)]]]
    /\ UNCHANGED <<db, faults>>

\* "Find the specific race data for this round"
find_race(race_data, round_num) ==
    first(race_data, {k \in 1..Len(race_data) :
                         int(race_data[k].round) = round_num})

\* race_info.get(key, {})
DictGet(entry) == IF entry = None THEN NoDict ELSE entry[1]

session_fields(session_type, date, time, round_id) ==
    [session_type |-> session_type, date |-> date, time |-> time,
     status |-> "completed", round_id |-> round_id]

\* a faulty variant: qualifying and sprint take their own date or none
session_date_own(session_type, race_info) ==
    CASE session_type = "race" -> parse_date(Get(race_info.date, None))
      [] session_type = "qualifying" ->
            parse_date(Get(DictGet(race_info.Qualifying).date, None))
      [] session_type = "sprint" ->
            parse_date(Get(DictGet(race_info.Sprint).date, None))
      [] session_type = "practice1" ->
            parse_date(Get(DictGet(race_info.FirstPractice).date, None))
      [] session_type = "practice2" ->
            parse_date(Get(DictGet(race_info.SecondPractice).date, None))
      [] session_type = "practice3" ->
            parse_date(Get(DictGet(race_info.ThirdPractice).date, None))

\* the date and time given to each session type
session_date(session_type, race_info) ==
    CASE session_type = "race" -> parse_date(Get(race_info.date, None))
      [] session_type = "qualifying" ->
            parse_date(Get(DictGet(race_info.Qualifying).date,
                           Get(race_info.date, None)))
      [] session_type = "sprint" ->
            parse_date(Get(DictGet(race_info.Sprint).date,
                           Get(race_info.date, None)))
      [] session_type = "practice1" ->
            parse_date(Get(DictGet(race_info.FirstPractice).date, None))
      [] session_type = "practice2" ->
            parse_date(Get(DictGet(race_info.SecondPractice).date, None))
      [] session_type = "practice3" ->
            parse_date(Get(DictGet(race_info.ThirdPractice).date, None))

session_time(session_type, race_info) ==
    CASE session_type = "race" -> Get(race_info.time, None)
      [] session_type = "qualifying" -> Get(DictGet(race_info.Qualifying).time, None)
      [] session_type = "sprint" -> Get(DictGet(race_info.Sprint).time, None)
      [] session_type = "practice1" -> Get(DictGet(race_info.FirstPractice).time, None)
      [] session_type = "practice2" -> Get(DictGet(race_info.SecondPractice).time, None)
      [] session_type = "practice3" -> Get(DictGet(race_info.ThirdPractice).time, None)

\* a faulty variant: a session type the round already has is skipped
create_session_once(d, jb, session_type, next_pc) ==
    LET race_info == jb.sess.race_info[1]
    IN IF \E k \in 1..Len(d.session) :
             /\ d.session[k].round_id = jb.sess.round_id
             /\ d.session[k].session_type = session_type
       THEN [db |-> d, job |-> [jb EXCEPT !.pc = next_pc]]
       ELSE CreateThen(d, jb, "session",
               session_fields(session_type, session_date(session_type, race_info),
                              session_time(session_type, race_info),
                              jb.sess.round_id),
               [jb EXCEPT !.sess.count = @ + 1, !.pc = next_pc])

\* crud.create_session of one type, then `count += 1`
create_session_of(d, jb, session_type, next_pc) ==
    LET race_info == jb.sess.race_info[1]
    IN CreateThen(d, jb, "session",
            session_fields(session_type, session_date(session_type, race_info),
                           session_time(session_type, race_info),
                           jb.sess.round_id),
            [jb EXCEPT !.sess.count = @ + 1, !.pc = next_pc])

\* a faulty variant: the race session is created from 2000 on only
sessions_race_modern(d, jb, resp) ==
    LET race_info == find_race(fetch_races(resp, jb.season_year), jb.sess.round_num)
        fetched == [Noted(jb, resp) EXCEPT !.sess.count = 0,
                                           !.sess.race_info = race_info]
    IN IF race_info = None
       THEN [db |-> d, job |-> [fetched EXCEPT !.pc = "s_ret"]]
       ELSE IF jb.season_year >= ModernEra
       THEN create_session_of(d, fetched, "race", "s_quali")
       ELSE [db |-> d, job |-> [fetched EXCEPT !.pc = "s_quali"]]

\* a faulty variant: a round that is not in the race list raises
sessions_race_strict(d, jb, resp) ==
    LET race_info == find_race(fetch_races(resp, jb.season_year), jb.sess.round_num)
        fetched == [Noted(jb, resp) EXCEPT !.sess.count = 0,
                                           !.sess.race_info = race_info]
    IN IF race_info = None
       THEN [db |-> d, job |-> Raise(fetched, "LookupError")]
       ELSE create_session_of(d, fetched, "race", "s_quali")

\* the re-fetch of the race list, the scan for the round, the race session
sessions_race(d, jb, resp) ==
    LET race_info == find_race(fetch_races(resp, jb.season_year), jb.sess.round_num)
        fetched == [Noted(jb, resp) EXCEPT !.sess.count = 0,
                                           !.sess.race_info = race_info]
    IN IF race_info = None
       THEN [db |-> d, job |-> [fetched EXCEPT !.pc = "s_ret"]]
       ELSE create_session_of(d, fetched, "race", "s_quali")

ImportSessionsRace(j) ==
    /\ Running(j) /\ jobs[j].pc = "s_fetch"
    /\ \E resp \in Responses :
         /\ FaultOk(resp)
         /\ Apply(j, sessions_race(db, jobs[j], resp))
         /\ faults' = FaultsAfter(resp)

\* a faulty variant: a qualifying session needs the payload's Qualifying key
sessions_qualifying_keyed(d, jb, resp) ==
    LET quali_data == fetch_qualifying_results(resp, jb.season_year,
                                               jb.sess.round_num)
        fetched == [Noted(jb, resp) EXCEPT !.sess.quali_data = quali_data]
    IN IF quali_data # <<>> /\ jb.sess.race_info[1].Qualifying # None
       THEN create_session_of(d, fetched, "qualifying", "s_sprint")
       ELSE [db |-> d, job |-> [fetched EXCEPT !.pc = "s_sprint"]]

\* "Check for qualifying"
sessions_qualifying(d, jb, resp) ==
    LET quali_data == fetch_qualifying_results(resp, jb.season_year,
                                               jb.sess.round_num)
        fetched == [Noted(jb, resp) EXCEPT !.sess.quali_data = quali_data]
    IN IF quali_data # <<>>
       THEN create_session_of(d, fetched, "qualifying", "s_sprint")
       ELSE [db |-> d, job |-> [fetched EXCEPT !.pc = "s_sprint"]]

ImportSessionsQualifying(j) ==
    /\ Running(j) /\ jobs[j].pc = "s_quali"
    /\ \E resp \in Responses :
         /\ FaultOk(resp)
         /\ Apply(j, sessions_qualifying(db, jobs[j], resp))
         /\ faults' = FaultsAfter(resp)

\* a faulty variant: practice sessions in every year
after_sprint_any_year(season_year) == "s_p1"

\* `if season_year >= 2000`
after_sprint(season_year) == IF season_year >= ModernEra THEN "s_p1" ELSE "s_ret"

\* "Check for sprint"
sessions_sprint(d, jb, resp) ==
    LET sprint_data == fetch_sprint_results(resp, jb.season_year,
                                            jb.sess.round_num)
        fetched == [Noted(jb, resp) EXCEPT !.sess.sprint_data = sprint_data]
    IN IF sprint_data # <<>>
       THEN create_session_of(d, fetched, "sprint", after_sprint(jb.season_year))
       ELSE [db |-> d, job |-> [fetched EXCEPT !.pc = after_sprint(jb.season_year)]]

ImportSessionsSprint(j) ==
    /\ Running(j) /\ jobs[j].pc = "s_sprint"
    /\ \E resp \in Responses :
         /\ FaultOk(resp)
         /\ Apply(j, sessions_sprint(db, jobs[j], resp))
         /\ faults' = FaultsAfter(resp)

ImportSessionsPractice1(j) ==
    /\ Running(j) /\ jobs[j].pc = "s_p1"
    /\ Apply(j, create_session_of(db, jobs[j], "practice1", "s_p2"))
    /\ UNCHANGED faults

\* a faulty variant: no third practice
after_practice2_no_third(sess) == "s_ret"

\* a faulty variant: a third practice needs a date under its key
after_practice2_dated(sess) ==
    IF /\ sess.sprint_data = <<>>
       /\ sess.race_info[1].ThirdPractice # None
       /\ DictGet(sess.race_info[1].ThirdPractice).date # None
    THEN "s_p3" ELSE "s_ret"

\* a faulty variant: a third practice on a sprint weekend too
after_practice2_sprint_too(sess) ==
    IF sess.race_info[1].ThirdPractice # None THEN "s_p3" ELSE "s_ret"

\* `if not sprint_data and "ThirdPractice" in race_info`
after_practice2(sess) ==
    IF sess.sprint_data = <<>> /\ sess.race_info[1].ThirdPractice # None
    THEN "s_p3" ELSE "s_ret"

ImportSessionsPractice2(j) ==
    /\ Running(j) /\ jobs[j].pc = "s_p2"
    /\ Apply(j, create_session_of(db, jobs[j], "practice2",
                                  after_practice2(jobs[j].sess)))
    /\ UNCHANGED faults

ImportSessionsPractice3(j) ==
    /\ Running(j) /\ jobs[j].pc = "s_p3"
    /\ Apply(j, create_session_of(db, jobs[j], "practice3", "s_ret"))
    /\ UNCHANGED faults

\* one completed call of import_sessions_for_round: its arguments, what its
\* three fetches gave it and the count it returned
call_of(jb) ==
    [season_year |-> jb.season_year, round_num |-> jb.sess.round_num,
     round_id |-> jb.sess.round_id, found |-> jb.sess.race_info # None,
     quali |-> jb.sess.quali_data # <<>>, sprint |-> jb.sess.sprint_data # <<>>,
     first |-> jb.sess.first, count |-> jb.sess.count]

\* `return count` of import_sessions_for_round: to whoever called it, or, in
\* import_rounds_for_season, on to the next race (the value is dropped)
ImportSessionsReturn(j) ==
    /\ Running(j) /\ jobs[j].pc = "s_ret"
    /\ jobs' = [jobs EXCEPT ![j] =
                  LET called == [@ EXCEPT !.calls = Append(@, call_of(jobs[j]))]
                  IN IF @.routine = "sessions"
                     THEN Ended([called EXCEPT !.ret = jobs[j].sess.count],
                                "returned")
                     ELSE Advance([called EXCEPT !.sess = NoSess])]
    /\ UNCHANGED <<db, faults>>

(* POST import/teamdrivers/{season_year} *)
TriggerImportTeamDrivers(j) ==
    /\ CanStart(j)
    /\ \E y \in SeasonYears :
         jobs' = [jobs EXCEPT ![j] =
                    Begin(db, "team_drivers", "team_drivers", 0, None, y)]
    /\ UNCHANGED <<db, faults>>

\* a faulty variant: without a Season of the year the routine returns 0
ImportTeamDriversFetchGated(j) ==
    /\ Running(j) /\ jobs[j].cur = "team_drivers" /\ jobs[j].pc = "fetch"
    /\ IF get_season_by_year(db, jobs[j].season_year) = None
       THEN /\ jobs' = [jobs EXCEPT ![j].count = 0, ![j].pc = "ret"]
            /\ faults' = faults
       ELSE \E resp \in Responses :
              /\ FaultOk(resp)
              /\ jobs' = [jobs EXCEPT ![j] =
                     Loop(@, fetch_driver_constructor_by_season(resp, @.season_year),
                          Fetched("standings", @.season_year, 0, resp))]
              /\ faults' = FaultsAfter(resp)
    /\ UNCHANGED db

(* import_team_drivers_for_season *)
ImportTeamDriversFetch(j) ==
    /\ Running(j) /\ jobs[j].cur = "team_drivers" /\ jobs[j].pc = "fetch"
    /\ \E resp \in Responses :
         /\ FaultOk(resp)
         /\ jobs' = [jobs EXCEPT ![j] =
                Loop(@, fetch_driver_constructor_by_season(resp, @.season_year),
                     Fetched("standings", @.season_year, 0, resp))]
         /\ faults' = FaultsAfter(resp)
    /\ UNCHANGED db

\* a faulty variant: no query for an existing pairing
team_driver_record_unchecked(d, jb) ==
    LET team_driver_data == jb.data[jb.i]
        driver == get_driver_by_reference(d, team_driver_data.driverId)
        team == get_team_by_reference(d, team_driver_data.constructorId)
    IN IF driver = None \/ team = None
       THEN Skip(d, jb)
       ELSE CreateAndCount(d, jb, "team_driver",
                [team_id |-> team[1].id, driver_id |-> driver[1].id,
                 season_year |-> jb.season_year])

team_driver_record(d, jb) ==
    LET team_driver_data == jb.data[jb.i]
        driver == get_driver_by_reference(d, team_driver_data.driverId)
        team == get_team_by_reference(d, team_driver_data.constructorId)
    IN IF driver = None \/ team = None
       THEN Skip(d, jb)
       ELSE IF get_team_driver(d, team[1].id, driver[1].id, jb.season_year) # None
       THEN Skip(d, jb)
       ELSE CreateAndCount(d, jb, "team_driver",
                [team_id |-> team[1].id, driver_id |-> driver[1].id,
                 season_year |-> jb.season_year])

ImportTeamDriversRecord(j) ==
    /\ Running(j) /\ jobs[j].cur = "team_drivers" /\ jobs[j].pc = "loop"
    /\ Apply(j, team_driver_record(db, jobs[j]))
    /\ UNCHANGED faults

(* POST import/all *)
TriggerImportAll(j) ==
    /\ CanStart(j)
    /\ \E s \in StartYears, e \in EndYears :
         jobs' = [jobs EXCEPT ![j] =
                    Begin(db, "all", "seasons", s, e, 0)]
    /\ UNCHANGED <<db, faults>>

\* a routine enqueued on its own returns its count
RoutineReturn(j) ==
    /\ Running(j) /\ jobs[j].pc = "ret" /\ jobs[j].routine # "all"
    /\ jobs' = [jobs EXCEPT ![j] =
                  Ended([@ EXCEPT !.ret = jobs[j].count], "returned")]
    /\ UNCHANGED <<db, faults>>

\* the routine import_all_f1_data calls next
enter(d, jb, cur, season_year) ==
    [jb EXCEPT !.cur = cur, !.season_year = season_year, !.pc = "fetch",
               !.cpre = Sizes(d)]

\* a faulty variant: each year's team-driver import runs before its rounds
import_all_next_swapped(d, jb) ==
    LET res == [jb.results EXCEPT ![jb.cur] = @ + jb.count]
        kept == [jb EXCEPT !.results = res]
        done == Ended([kept EXCEPT !.season_year = 0], "returned")
    IN CASE jb.cur = "seasons" -> enter(d, kept, "circuits", 0)
         [] jb.cur = "circuits" -> enter(d, kept, "drivers", 0)
         [] jb.cur = "drivers" -> enter(d, kept, "teams", 0)
         [] jb.cur = "teams" ->
               IF jb.start_year > jb.end_year THEN done
               ELSE enter(d, kept, "team_drivers", jb.start_year)
         [] jb.cur = "team_drivers" -> enter(d, kept, "rounds", jb.season_year)
         [] jb.cur = "rounds" ->
               IF jb.season_year + 1 > jb.end_year THEN done
               ELSE enter(d, kept, "team_drivers", jb.season_year + 1)

\* a faulty variant: results holds the count of the last call of each routine
import_all_next_overwrite(d, jb) ==
    LET res == [jb.results EXCEPT ![jb.cur] = jb.count]
        kept == [jb EXCEPT !.results = res]
        done == Ended([kept EXCEPT !.season_year = 0], "returned")
    IN CASE jb.cur = "seasons" -> enter(d, kept, "circuits", 0)
         [] jb.cur = "circuits" -> enter(d, kept, "drivers", 0)
         [] jb.cur = "drivers" -> enter(d, kept, "teams", 0)
         [] jb.cur = "teams" ->
               IF jb.start_year > jb.end_year THEN done
               ELSE enter(d, kept, "rounds", jb.start_year)
         [] jb.cur = "rounds" -> enter(d, kept, "team_drivers", jb.season_year)
         [] jb.cur = "team_drivers" ->
               IF jb.season_year + 1 > jb.end_year THEN done
               ELSE enter(d, kept, "rounds", jb.season_year + 1)

\* import_all_f1_data between two routines: the count goes into results, the
\* next routine is entered or, past the last year, results is returned
import_all_next(d, jb) ==
    LET res == [jb.results EXCEPT ![jb.cur] = @ + jb.count]
        kept == [jb EXCEPT !.results = res]
        done == Ended([kept EXCEPT !.season_year = 0], "returned")
    IN CASE jb.cur = "seasons" -> enter(d, kept, "circuits", 0)
         [] jb.cur = "circuits" -> enter(d, kept, "drivers", 0)
         [] jb.cur = "drivers" -> enter(d, kept, "teams", 0)
         [] jb.cur = "teams" ->
               IF jb.start_year > jb.end_year THEN done
               ELSE enter(d, kept, "rounds", jb.start_year)
         [] jb.cur = "rounds" -> enter(d, kept, "team_drivers", jb.season_year)
         [] jb.cur = "team_drivers" ->
               IF jb.season_year + 1 > jb.end_year THEN done
               ELSE enter(d, kept, "rounds", jb.season_year + 1)

ImportAllNext(j) ==
    /\ Running(j) /\ jobs[j].pc = "ret" /\ jobs[j].routine = "all"
    /\ jobs' = [jobs EXCEPT ![j] = import_all_next(db, @)]
    /\ UNCHANGED <<db, faults>>

\* the process is stopped while a job is part-way
Kill(j) ==
    /\ Running(j)
    /\ faults < MaxFaults
    /\ jobs' = [jobs EXCEPT ![j] = Ended([@ EXCEPT !.results = ZeroResults],
                                          "killed")]
    /\ faults' = faults + 1
    /\ UNCHANGED db

----------------------------------------------------------------------------
Init ==
    /\ db = EmptyDb
    /\ jobs = [j \in JobIds |-> IdleJob]
    /\ faults = 0

Next ==
    \E j \in JobIds :
        \/ TriggerImportAll(j)
        \/ TriggerImportSeasons(j)
        \/ TriggerImportCircuits(j)
        \/ TriggerImportDrivers(j)
        \/ TriggerImportTeams(j)
        \/ TriggerImportRounds(j)
        \/ TriggerImportTeamDrivers(j)
        \/ CallImportSessions(j)
        \/ ImportSeasonsFetch(j)
        \/ ImportSeasonsRecord(j)
        \/ ImportCircuitsFetch(j)
        \/ ImportCircuitsRecord(j)
        \/ ImportDriversFetch(j)
        \/ ImportDriversRecord(j)
        \/ ImportTeamsFetch(j)
        \/ ImportTeamsRecord(j)
        \/ ImportRoundsFetch(j)
        \/ ImportRoundsCircuit(j)
        \/ ImportRoundsRound(j)
        \/ ImportSessionsRace(j)
        \/ ImportSessionsQualifying(j)
        \/ ImportSessionsSprint(j)
        \/ ImportSessionsPractice1(j)
        \/ ImportSessionsPractice2(j)
        \/ ImportSessionsPractice3(j)
        \/ ImportSessionsReturn(j)
        \/ ImportTeamDriversFetch(j)
        \/ ImportTeamDriversRecord(j)
        \/ RoutineReturn(j)
        \/ ImportAllNext(j)
        \/ Kill(j)

Spec == Init /\ [][Next]_vars

\* the same program against an upstream that also answers oddly
NextOdd ==
    \/ Next
    \/ \E j \in JobIds :
          \/ ImportSeasonsFetchOdd(j)
          \/ ImportCircuitsFetchOdd(j)
          \/ ImportDriversFetchOdd(j)
          \/ ImportRoundsFetchOdd(j)

SpecOdd == Init /\ [][NextOdd]_vars

----------------------------------------------------------------------------
(* GET /import/status, polled by the caller of an import endpoint *)

\* a faulty variant: the endpoint tells whether a job is running
get_import_status_tracking ==
    IF \E j \in JobIds : jobs[j].status = "running"
    THEN [status |-> "Import in progress"]
    ELSE [status |-> "No import in progress"]

get_import_status == [status |-> "No import in progress"]

\* one poll, kept with the job slot the caller asks about: before the job is
\* enqueued, while it runs or after it has ended
GetImportStatus(j) ==
    /\ jobs[j].seen = "none"
    /\ jobs' = [jobs EXCEPT ![j].seen = get_import_status.status]
    /\ UNCHANGED <<db, faults>>

NextStatus == NextOdd \/ \E j \in JobIds : GetImportStatus(j)

SpecStatus == Init /\ [][NextStatus]_vars

----------------------------------------------------------------------------
(* A store that rejects an insert. crud.create_* commits each row on its own
   and no import routine has a try around it: when `db.commit()` raises, for a
   row another writer of the database has stored in the meantime, the
   exception leaves the routine. *)

\* the step job jb is at, its fetch, if it is at one, having answered
step_of(d, jb) ==
    CASE jb.pc = "loop" /\ jb.cur = "seasons" -> season_record(d, jb)
      [] jb.pc = "loop" /\ jb.cur = "circuits" -> circuit_record(d, jb)
      [] jb.pc = "loop" /\ jb.cur = "drivers" -> driver_record(d, jb)
      [] jb.pc = "loop" /\ jb.cur = "teams" -> team_record(d, jb)
      [] jb.pc = "loop" /\ jb.cur = "team_drivers" -> team_driver_record(d, jb)
      [] jb.pc = "round" -> race_round(d, jb)
      [] jb.pc = "s_fetch" -> sessions_race(d, jb, "ok")
      [] jb.pc = "s_quali" -> sessions_qualifying(d, jb, "ok")
      [] jb.pc = "s_sprint" -> sessions_sprint(d, jb, "ok")
      [] jb.pc = "s_p1" -> create_session_of(d, jb, "practice1", "s_p2")
      [] jb.pc = "s_p2" ->
            create_session_of(d, jb, "practice2", after_practice2(jb.sess))
      [] jb.pc = "s_p3" -> create_session_of(d, jb, "practice3", "s_ret")
      [] OTHER -> [db |-> d, job |-> jb]

\* job j is at a step that creates a row, and the store rejects the insert
CreateRejected(j) ==
    /\ Running(j) /\ faults < MaxFaults
    /\ step_of(db, jobs[j]).db # db
    /\ jobs' = [jobs EXCEPT ![j] = Raise(@, "IntegrityError")]
    /\ faults' = faults + 1
    /\ UNCHANGED db

NextReject == Next \/ \E j \in JobIds : CreateRejected(j)

SpecReject == Init /\ [][NextReject]_vars

----------------------------------------------------------------------------
(* The repository called on its own (crud.py): get by id, get by natural key,
   update and delete. A call runs through without giving up control; what it
   gave its caller stays in its slot until the caller drops it. *)

RepoTables == {"season", "circuit", "driver", "team", "round", "session", "team_driver"}

\* the ids the calls are made with
RepoIds == {1, 3}

\* the natural keys the calls are made with
RepoYears == <<1999, 2002>>

RepoReferences == <<"monza", "imola">>

RepoRoundReferences == <<round_reference_of(1999, <<"1">>), round_reference_of(2002, <<"1">>)>>

\* get_circuit, get_driver, ...: `if not row: raise HTTPException(404)`
get(d, table, id) ==
    LET row == first(d[table], {k \in 1..Len(d[table]) : d[table][k].id = id})
    IN [error |-> IF row = None THEN "NotFound" ELSE "none", row |-> row, db |-> d]

\* a faulty variant: a natural key that no row has is NotFound, as an id is
get_by_natural_key_strict(d, table, n) ==
    LET row == CASE table = "season" -> get_season_by_year(d, RepoYears[n])
                 [] table = "circuit" -> get_circuit_by_reference(d, RepoReferences[n])
                 [] table = "driver" -> get_driver_by_reference(d, RepoReferences[n])
                 [] table = "team" -> get_team_by_reference(d, RepoReferences[n])
                 [] table = "round" -> get_round_by_reference(d, RepoRoundReferences[n])
    IN [error |-> IF row = None THEN "NotFound" ELSE "none", row |-> row, db |-> d]

\* get_season_by_year, get_*_by_reference: `.first()`, None where no row
\* matches
get_by_natural_key(d, table, n) ==
    [error |-> "none", db |-> d,
     row |-> CASE table = "season" -> get_season_by_year(d, RepoYears[n])
               [] table = "circuit" -> get_circuit_by_reference(d, RepoReferences[n])
               [] table = "driver" -> get_driver_by_reference(d, RepoReferences[n])
               [] table = "team" -> get_team_by_reference(d, RepoReferences[n])
               [] table = "round" -> get_round_by_reference(d, RepoRoundReferences[n])]

\* the fields an update is called with (`exclude_unset`: these and no others)
update_data(table) ==
    CASE table = "season" -> [year |-> 1998]
      [] table = "round" -> [reference |-> <<"x">>]
      [] table = "session" -> [status |-> "cancelled"]
      [] OTHER -> [reference |-> "renamed"]

\* update_*: get by id, setattr for each field, commit
update(d, table, id, fields) ==
    LET hit == get(d, table, id)
        merged == fields @@ hit.row[1]
        rest == [d EXCEPT ![table] = SelectSeq(@, LAMBDA r : r.id # id)]
    IN IF hit.error # "none" THEN [error |-> "NotFound", row |-> None, db |-> d]
       ELSE IF ~unique_ok(rest, table, merged)
       THEN [error |-> "IntegrityError", row |-> None, db |-> d]
       ELSE [error |-> "none", row |-> Some(merged),
             db |-> [d EXCEPT ![table] =
                       [k \in 1..Len(@) |-> IF @[k].id = id THEN merged ELSE @[k]]]]

\* whether a row of another table points at the row: the foreign keys of
\* models.py, all of them nullable=False
referenced(d, table, id) ==
    CASE table = "season" -> \E k \in 1..Len(d.round) : d.round[k].season_id = id
      [] table = "circuit" -> \E k \in 1..Len(d.round) : d.round[k].circuit_id = id
      [] table = "round" -> \E k \in 1..Len(d.session) : d.session[k].round_id = id
      [] table = "driver" ->
            \E k \in 1..Len(d.team_driver) : d.team_driver[k].driver_id = id
      [] table = "team" ->
            \E k \in 1..Len(d.team_driver) : d.team_driver[k].team_id = id
      [] OTHER -> FALSE

\* delete_*: get by id, delete, commit; the commit fails where the rows that
\* point at the row would be left without their parent
delete(d, table, id) ==
    LET hit == get(d, table, id)
    IN IF hit.error # "none" THEN [error |-> "NotFound", row |-> None, db |-> d]
       ELSE IF referenced(d, table, id)
       THEN [error |-> "IntegrityError", row |-> None, db |-> d]
       ELSE [error |-> "none", row |-> hit.row,
             db |-> [d EXCEPT ![table] = SelectSeq(@, LAMBDA r : r.id # id)]]

RepoOps == {"get", "get_by_natural_key", "update", "delete"}

\* the calls crud.py has: no natural key for sessions and team-drivers, no
\* update for team-drivers
repo_call_exists(op, table) ==
    CASE op = "get_by_natural_key" -> table \notin {"session", "team_driver"}
      [] op = "update" -> table # "team_driver"
      [] OTHER -> TRUE

repo_call(d, op, table, n) ==
    CASE op = "get" -> get(d, table, n)
      [] op = "get_by_natural_key" -> get_by_natural_key(d, table, n)
      [] op = "update" -> update(d, table, n, update_data(table))
      [] op = "delete" -> delete(d, table, n)

\* one call of the repository, between the import jobs; a call that writes
\* counts against the budget of the behaviour
RepositoryCall(j) ==
    /\ CanStart(j)
    /\ \E op \in RepoOps, table \in RepoTables :
         /\ repo_call_exists(op, table)
         /\ \E n \in (IF op = "get_by_natural_key" THEN {1, 2} ELSE RepoIds) :
              LET r == repo_call(db, op, table, n)
              IN /\ r.db # db => faults < MaxFaults
                 /\ db' = r.db
                 /\ faults' = IF r.db # db THEN faults + 1 ELSE faults
                 /\ jobs' = [jobs EXCEPT ![j] =
                        [IdleJob EXCEPT
                            !.routine = op, !.pc = "done",
                            !.status = IF r.error = "none" THEN "returned"
                                       ELSE "raised",
                            !.error = r.error, !.table = table, !.arg = n,
                            !.row = r.row, !.pre = Sizes(db)]]

\* the caller of the last call has its answer; the slot is free again
Forget(j) ==
    /\ jobs[j].routine \in RepoOps
    /\ \A k \in JobIds : k > j => jobs[k].status = "idle"
    /\ jobs' = [jobs EXCEPT ![j] = IdleJob]
    /\ UNCHANGED <<db, faults>>

NextCrud == Next \/ \E j \in JobIds : RepositoryCall(j) \/ Forget(j)

SpecCrud == Init /\ [][NextCrud]_vars

----------------------------------------------------------------------------
(* Jobs under way at the same time. The routines are coroutines run as
   background tasks on the one event loop of the process; the store is read
   and written by blocking calls. A job gives up control only where it awaits
   a fetch: `await parse_date(...)` awaits nothing, so it runs through. *)

\* the positions at which a job waits for a fetch to answer
AwaitingFetch == {"fetch", "s_fetch", "s_quali", "s_sprint"}

\* the event loop is free for job j: every other job is idle, ended or
\* waiting for a fetch
LoopFree(j) ==
    \A k \in JobIds \ {j} :
        jobs[k].status = "running" => jobs[k].pc \in AwaitingFetch

\* the year the endpoints are called with while other jobs are under way
ConcurrentYears == {2000}

\* a POST to one of the import endpoints, whatever jobs are under way; the
\* jobs are numbered in the order they are triggered
TriggerImport(j) ==
    /\ jobs[j].status = "idle"
    /\ \A k \in JobIds : k < j => jobs[k].status # "idle"
    /\ \E routine \in {"all", "seasons", "circuits", "drivers", "teams",
                        "rounds", "team_drivers"} :
         \E s \in ConcurrentYears, e \in {Some(c) : c \in ConcurrentYears},
            y \in ConcurrentYears :
            jobs' = [jobs EXCEPT ![j] =
                CASE routine \in {"all", "seasons"} ->
                        Begin(db, routine, "seasons", s, e, 0)
                  [] routine \in {"rounds", "team_drivers"} ->
                        Begin(db, routine, routine, 0, None, y)
                  [] OTHER -> Begin(db, routine, routine, 0, None, 0)]
    /\ UNCHANGED <<db, faults>>

\* one step of a job that has been triggered
RoutineStep(j) ==
    \/ ImportSeasonsFetch(j)
    \/ ImportSeasonsRecord(j)
    \/ ImportCircuitsFetch(j)
    \/ ImportCircuitsRecord(j)
    \/ ImportDriversFetch(j)
    \/ ImportDriversRecord(j)
    \/ ImportTeamsFetch(j)
    \/ ImportTeamsRecord(j)
    \/ ImportRoundsFetch(j)
    \/ ImportRoundsCircuit(j)
    \/ ImportRoundsRound(j)
    \/ ImportSessionsRace(j)
    \/ ImportSessionsQualifying(j)
    \/ ImportSessionsSprint(j)
    \/ ImportSessionsPractice1(j)
    \/ ImportSessionsPractice2(j)
    \/ ImportSessionsPractice3(j)
    \/ ImportSessionsReturn(j)
    \/ ImportTeamDriversFetch(j)
    \/ ImportTeamDriversRecord(j)

Step(j) == RoutineStep(j) \/ RoutineReturn(j) \/ ImportAllNext(j)

NextConcurrent ==
    \E j \in JobIds : LoopFree(j) /\ (TriggerImport(j) \/ Step(j))

\* the interleavings are explored with every fetch succeeding
InitConcurrent ==
    /\ db = EmptyDb
    /\ jobs = [j \in JobIds |-> IdleJob]
    /\ faults = MaxFaults

\* the event loop runs every task that is ready, and every fetch answers
SpecConcurrent ==
    /\ InitConcurrent /\ [][NextConcurrent]_vars
    /\ \A j \in JobIds : WF_vars(LoopFree(j) /\ Step(j))

\* full imports one after the other, the process never stopped
NextAll ==
    \E j \in JobIds : TriggerImportAll(j) \/ RoutineStep(j) \/ ImportAllNext(j)

\* the step of the job under way is taken in the end: the event loop resumes
\* a coroutine that is ready, and a fetch answers, fails or runs into the
\* timeout of the client session
SpecAll ==
    /\ Init /\ [][NextAll]_vars
    /\ WF_vars(\E j \in JobIds : RoutineStep(j) \/ ImportAllNext(j))

----------------------------------------------------------------------------
(* parse_date on its own: the driver import over a fetched list whose birth
   dates are any of the texts below *)

\* absent, empty, two dates, a date in another notation, a day that is not in
\* the calendar
DateTexts ==
    {None, Some(""), Some("1968-09-28"), Some("1969-01-03"),
     Some("28/09/1968"), Some("2000-02-30")}

DateDrivers == <<"hakkinen", "schumacher", "hill">>

InitDates ==
    /\ db = EmptyDb
    /\ faults = 0
    /\ \E texts \in [1..Len(DateDrivers) -> DateTexts] :
         jobs = [j \in JobIds |->
                   IF j = 1
                   THEN Loop(Begin(EmptyDb, "drivers", "drivers", 0, None, 0),
                             [k \in 1..Len(DateDrivers) |->
                                 [driverId |-> DateDrivers[k],
                                  permanentNumber |-> None,
                                  dateOfBirth |-> texts[k]]],
                             Fetched("drivers", 0, 0, "ok"))
                   ELSE IdleJob]

NextDates == \E j \in JobIds : ImportDriversRecord(j) \/ RoutineReturn(j)

SpecDates == InitDates /\ [][NextDates]_vars

----------------------------------------------------------------------------
(* Properties. Jobs run one after the other and no routine deletes a row, so
   the rows a job or a call created are the rows appended to a table since
   the size recorded when it began. *)

Seq2Set(sq) == {sq[k] : k \in 1..Len(sq)}

\* the rows appended to a table after it held n rows
Since(table, n) == SubSeq(table, n + 1, Len(table))

\* the entity kinds that have a natural key
KeyedTables == {"season", "circuit", "driver", "team", "round", "team_driver"}

\* the arguments of a job
Scope(jb) ==
    CASE jb.routine \in {"all", "seasons"} -> <<jb.start_year, jb.end_year>>
      [] jb.routine \in {"rounds", "team_drivers"} -> <<jb.season_year>>
      [] jb.routine = "sessions" ->
            <<jb.season_year, jb.sess.round_num, jb.sess.round_id>>
      [] OTHER -> <<>>

\* the years the upstream lists
UpYears == {int(UpSeasons[k].season) : k \in 1..Len(UpSeasons)}

\* the years of a scope that a successful season import creates
ScopeYears(jb) == {y \in UpYears : jb.start_year <= y /\ y <= jb.end_year}

SessionTypes(rows) == [k \in 1..Len(rows) |-> rows[k].session_type]

\* the session types stored for a round, in the order of creation
session_types_of(rows, round_id) ==
    SessionTypes(SelectSeq(rows, LAMBDA r : r.round_id = round_id))

\* the completed calls of import_sessions_for_round, in the order they ran
RECURSIVE calls_upto(_)
calls_upto(j) == IF j = 0 THEN <<>> ELSE calls_upto(j - 1) \o jobs[j].calls

AllCalls == calls_upto(MaxJobs)

\* the session rows one completed call created
CreatedBy(c) == SubSeq(db.session, c.first + 1, c.first + c.count)

\* the rows of a table that job j created: those appended from its start to
\* the start of the next job
Created(j, t) ==
    SubSeq(db[t], jobs[j].pre[t] + 1,
           IF j < MaxJobs /\ jobs[j + 1].status # "idle"
           THEN jobs[j + 1].pre[t] ELSE Len(db[t]))

\* the rows a table held when job j began
Before(j, t) == SubSeq(db[t], 1, jobs[j].pre[t])

\* C1: a job that repeats the routine and scope of the job that returned just
\* before it, and whose list fetches answer as that job's did, creates no
\* Season, Circuit, Driver, Team, Round or TeamDriver row and returns 0
\* (import_all: 0 for every kind).
C1_RepeatCreatesNothing ==
    \A j \in JobIds \ {1} :
        LET a == jobs[j - 1]
            b == jobs[j]
        IN (/\ a.status = "returned"
            /\ b.status \in {"running", "returned"}
            /\ b.routine = a.routine /\ b.routine # "sessions"
            /\ Scope(b) = Scope(a)
            /\ b.flog \subseteq a.flog)
           => /\ \A t \in KeyedTables : Created(j, t) = <<>>
              /\ b.status = "returned" =>
                    b.ret = 0 /\ b.results = ZeroResults

\* C1, its case: import_all created rows of every kind, and ran again with
\* the same scope and the same answers
C1_Witness ==
    /\ jobs[1].routine = "all" /\ jobs[1].status = "returned"
    /\ \A kind \in DOMAIN ZeroResults : jobs[1].results[kind] > 0
    /\ jobs[2].routine = "all" /\ jobs[2].status = "returned"
    /\ Scope(jobs[2]) = Scope(jobs[1])
    /\ jobs[2].flog = jobs[1].flog

\* the rounds of a scope, by reference, with the race each was made from
ScopeRaces(jb) ==
    UNION {{<<y, race>> : race \in Seq2Set(UpRaces(y))} : y \in ScopeYears(jb)}

\* the session types of a round whose three fetches all succeeded
full_session_types(season_year, race) ==
    LET round_num == int(race.round)
        sprint == UpSprint(season_year, round_num) # <<>>
    IN <<"race">>
       \o (IF UpQualifying(season_year, round_num) # <<>>
           THEN <<"qualifying">> ELSE <<>>)
       \o (IF sprint THEN <<"sprint">> ELSE <<>>)
       \o (IF season_year >= ModernEra THEN <<"practice1", "practice2">> ELSE <<>>)
       \o (IF season_year >= ModernEra /\ ~sprint /\ race.ThirdPractice # None
           THEN <<"practice3">> ELSE <<>>)

\* the store one uninterrupted, fully successful import_all of a scope
\* leaves, starting from the empty store: the keys of every kind
FullKeys(jb) ==
    /\ {r.year : r \in Seq2Set(db.season)} = ScopeYears(jb)
    /\ {r.reference : r \in Seq2Set(db.circuit)}
         = {c.circuitId : c \in Seq2Set(UpCircuits)}
    /\ {r.reference : r \in Seq2Set(db.driver)}
         = {x.driverId : x \in Seq2Set(UpDrivers)}
    /\ {r.reference : r \in Seq2Set(db.team)}
         = {x.constructorId : x \in Seq2Set(UpConstructors)}
    /\ {r.reference : r \in Seq2Set(db.round)}
         = {round_reference_of(p[1], p[2].round) : p \in ScopeRaces(jb)}
    /\ {<<db.team[r.team_id].reference, db.driver[r.driver_id].reference,
          r.season_year>> : r \in Seq2Set(db.team_driver)}
         = UNION {{<<q.constructorId, q.driverId, y>> :
                     q \in {q \in Seq2Set(pairings(UpStandings(y), 1)) :
                        /\ q.driverId \in {x.driverId : x \in Seq2Set(UpDrivers)}
                        /\ q.constructorId \in
                              {x.constructorId : x \in Seq2Set(UpConstructors)}}} :
                  y \in jb.start_year..jb.end_year}

\* ... and the sessions of every round
FullSessions(jb) ==
    \A p \in ScopeRaces(jb) :
        LET row == get_round_by_reference(db, round_reference_of(p[1], p[2].round))
        IN row # None /\
           session_types_of(db.session, row[1].id) = full_session_types(p[1], p[2])

\* C2: after import_all ended part-way (a failed fetch, or the job stopped),
\* a second import_all of the same scope, all of whose fetches succeed, ends
\* in the store one uninterrupted, fully successful run produces: the same
\* rows of every natural-key kind and the same sessions for every round.
C2_RerunConverges ==
    (/\ jobs[1].routine = "all" /\ jobs[1].status \in Finished
     /\ jobs[2].routine = "all" /\ jobs[2].status = "returned"
     /\ Scope(jobs[2]) = Scope(jobs[1])
     /\ jobs[2].failed = 0)
    => FullKeys(jobs[2]) /\ FullSessions(jobs[2])

\* C2, its case: the first import_all lost a fetch, the second lost none
C2_Witness ==
    /\ jobs[1].routine = "all" /\ jobs[1].status = "returned"
    /\ jobs[1].failed > 0
    /\ jobs[2].routine = "all" /\ jobs[2].status = "returned"
    /\ Scope(jobs[2]) = Scope(jobs[1])
    /\ jobs[2].failed = 0
    /\ db.round # <<>>

\* C3: import_sessions_for_round checks for no existing session: of two calls
\* for the same round that found the same race, qualifying and sprint
\* answers, the later one creates and counts as many sessions as the earlier,
\* of the same types, as further rows; when the earlier call is the first for
\* the round and the later one follows it, the round then holds twice the
\* sessions of one call.
C3_SessionsDuplicated ==
    \A m \in 1..Len(AllCalls), n \in 1..Len(AllCalls) :
        LET c == AllCalls[m]
            e == AllCalls[n]
            held == SelectSeq(SubSeq(db.session, 1, e.first + e.count),
                              LAMBDA r : r.round_id = c.round_id)
        IN (/\ m < n
            /\ e.round_id = c.round_id /\ e.season_year = c.season_year
            /\ e.round_num = c.round_num
            /\ e.found = c.found /\ e.quali = c.quali /\ e.sprint = c.sprint)
           => /\ e.count = c.count
              /\ e.first >= c.first + c.count
              /\ SessionTypes(CreatedBy(e)) = SessionTypes(CreatedBy(c))
              /\ \A r \in Seq2Set(CreatedBy(e)) : r.round_id = e.round_id
              /\ (/\ session_types_of(SubSeq(db.session, 1, c.first), c.round_id) = <<>>
                  /\ e.first = c.first + c.count)
                 => Len(held) = 2 * c.count

\* C3, its case: a round whose sessions were imported with the round is given
\* a second, direct call with the same answers, and holds each type twice
C3_Witness ==
    \E m \in 1..Len(AllCalls), n \in 1..Len(AllCalls) :
        LET c == AllCalls[m]
            e == AllCalls[n]
        IN /\ m < n /\ e.round_id = c.round_id
           /\ e.found /\ c.found /\ e.quali = c.quali /\ e.sprint = c.sprint
           /\ c.count >= 4
           /\ Len(session_types_of(db.session, c.round_id)) = 2 * c.count

C5_NoSeasonNoRounds ==
    \A j \in JobIds :
        LET jb == jobs[j]
            none == get_season_by_year(db, jb.season_year) = None
            unfetched == \A f \in jb.flog :
                            ~(f.resource = "races" /\ f.season = jb.season_year)
        IN /\ (jb.status = "running" /\ jb.cur = "rounds" /\ jb.pc # "fetch"
               /\ none)
              => /\ jb.pc = "ret" /\ jb.count = 0
                 /\ Sizes(db) = jb.cpre
                 /\ unfetched
           /\ (jb.status = "returned" /\ jb.routine = "rounds" /\ none)
              => /\ jb.ret = 0
                 /\ \A t \in DOMAIN db : Created(j, t) = <<>>
                 /\ unfetched

\* C5, its case: the store holds a Season, but not the one asked for
C5_Witness ==
    \E j \in JobIds :
        /\ jobs[j].routine = "rounds" /\ jobs[j].status = "returned"
        /\ db.season # <<>>
        /\ get_season_by_year(db, jobs[j].season_year) = None
        /\ jobs[j].ret = 0 /\ jobs[j].flog = {}

\* one step of import_rounds_for_season on the race its loop is at
C6_Step(j) ==
    LET jb == jobs[j]
        race_data == jb.data[jb.i]
        reference == race_data.Circuit.circuitId
        known == get_circuit_by_reference(db, reference)
    IN /\ (jb.status = "running" /\ jb.cur = "rounds" /\ jb.pc = "loop"
           /\ jobs'[j] # jb /\ jobs'[j].status # "killed")
          => /\ jobs'[j].status = "running" /\ jobs'[j].pc = "round"
             /\ db'.round = db.round
             /\ IF known = None
                THEN /\ Len(db'.circuit) = Len(db.circuit) + 1
                     /\ Before(j, "circuit") = SubSeq(db'.circuit, 1, jb.pre.circuit)
                     /\ db'.circuit[Len(db'.circuit)].reference = reference
                     /\ jobs'[j].circuit_id = db'.circuit[Len(db'.circuit)].id
                ELSE /\ db' = db
                     /\ jobs'[j].circuit_id = known[1].id
             /\ Cardinality({k \in 1..Len(db'.circuit) :
                               db'.circuit[k].reference = reference}) = 1
       /\ (jb.status = "running" /\ jb.cur = "rounds" /\ jb.pc = "round"
           /\ db'.round # db.round)
          => /\ db'.circuit = db.circuit
             /\ Len(db'.round) = Len(db.round) + 1
             /\ known # None
             /\ db'.round[Len(db'.round)].circuit_id = known[1].id

\* C6: when import_rounds_for_season meets a race whose circuit reference is
\* in no Circuit row it creates one Circuit row for that reference, and only
\* then the Round row, which points at it; a race whose reference is already
\* stored creates no Circuit, so a reference is never stored twice.
C6_CircuitBeforeRound == [][\A j \in JobIds : C6_Step(j)]_vars

\* C6, its case: a round import created the circuit of its two races once
C6_Witness ==
    \E j \in JobIds :
        /\ jobs[j].routine = "rounds" /\ jobs[j].status = "returned"
        /\ jobs[j].ret = 2
        /\ Len(Created(j, "circuit")) = 1
        /\ \A r \in Seq2Set(Created(j, "round")) :
              r.circuit_id = Created(j, "circuit")[1].id

\* the race a completed call found
CallRace(c) == find_race(UpRaces(c.season_year), c.round_num)[1]

\* the calls C7 speaks of: year 2000 or later, no sprint results, a
\* ThirdPractice entry
C7_Case(c) ==
    /\ c.found /\ c.season_year >= 2000
    /\ ~c.sprint /\ CallRace(c).ThirdPractice # None

\* C7 as stated: such a call creates exactly 5 sessions.
C7_FiveSessions ==
    \A k \in 1..Len(AllCalls) :
        C7_Case(AllCalls[k]) => AllCalls[k].count = 5

\* C7, amended: such a call creates race, qualifying, practice1, practice2
\* and practice3, 5 sessions, when the qualifying fetch returned results, and
\* the 4 others when it returned none.
C7_FiveWithQualifying ==
    \A k \in 1..Len(AllCalls) :
        LET c == AllCalls[k]
        IN C7_Case(c) =>
             /\ SessionTypes(CreatedBy(c)) =
                  IF c.quali
                  THEN <<"race", "qualifying", "practice1", "practice2", "practice3">>
                  ELSE <<"race", "practice1", "practice2", "practice3">>
             /\ c.count = IF c.quali THEN 5 ELSE 4

\* C7, its case: a call of that kind that created 5 sessions
C7_Witness ==
    \E k \in 1..Len(AllCalls) :
        /\ C7_Case(AllCalls[k]) /\ AllCalls[k].quali
        /\ Len(CreatedBy(AllCalls[k])) = 5

PracticeTypes == {"practice1", "practice2", "practice3"}

\* C8: a call of import_sessions_for_round for a year before 2000 creates no
\* practice session, whatever the race entry holds.
C8_NoPracticeBefore2000 ==
    /\ \A k \in 1..Len(AllCalls) :
          AllCalls[k].season_year < 2000 =>
             \A r \in Seq2Set(CreatedBy(AllCalls[k])) :
                r.session_type \notin PracticeTypes
    /\ \A j \in JobIds :
          (jobs[j].status = "running" /\ jobs[j].sess.round_id # 0
           /\ jobs[j].season_year < 2000)
          => \A r \in Seq2Set(Since(db.session, jobs[j].sess.first)) :
                r.session_type \notin PracticeTypes

\* C8, its case: the 1999 race lists three practices; its call created the
\* race, qualifying and sprint sessions only
C8_Witness ==
    \E k \in 1..Len(AllCalls) :
        /\ AllCalls[k].season_year = 1999
        /\ CallRace(AllCalls[k]).FirstPractice # None
        /\ CallRace(AllCalls[k]).ThirdPractice # None
        /\ SessionTypes(CreatedBy(AllCalls[k])) = <<"race", "qualifying", "sprint">>

\* the date string an entry of the race carries, if any
OwnDate(entry) == Get(DictGet(entry).date, None)

\* C9: a qualifying or sprint session whose entry in the race carries no date
\* of its own is stored with the date of the race: that of the race session
\* of the same call and of the Round.
C9_FallbackDate ==
    \A k \in 1..Len(AllCalls) :
        LET c == AllCalls[k]
            rows == CreatedBy(c)
        IN c.found =>
             \A m \in 1..Len(rows) :
                (\/ rows[m].session_type = "qualifying"
                    /\ OwnDate(CallRace(c).Qualifying) = None
                 \/ rows[m].session_type = "sprint"
                    /\ OwnDate(CallRace(c).Sprint) = None)
                => /\ rows[1].session_type = "race"
                   /\ rows[m].date = rows[1].date
                   /\ rows[m].date = db.round[c.round_id].date

\* C9, its case: round 2 of 2000, whose Qualifying and Sprint entries have no
\* date, got both sessions on the day of the race
C9_Witness ==
    \E k \in 1..Len(AllCalls) :
        LET c == AllCalls[k]
            rows == CreatedBy(c)
        IN /\ c.season_year = 2000 /\ c.round_num = 2
           /\ c.found /\ c.quali /\ c.sprint
           /\ rows[2].session_type = "qualifying"
           /\ rows[3].session_type = "sprint"
           /\ rows[2].date = Some([year |-> 2000, month |-> 3, day |-> 26])
           /\ rows[3].date = rows[2].date

\* the natural key of a row
KeyOf(t, r) ==
    CASE t = "season" -> r.year
      [] t = "team_driver" ->
            <<db.team[r.team_id].reference, db.driver[r.driver_id].reference,
              r.season_year>>
      [] OTHER -> r.reference

KeysOf(t, rows) == {KeyOf(t, r) : r \in Seq2Set(rows)}

\* the keys the store held when job j began, and those job j created
KeysBefore(j) == [t \in KeyedTables |-> KeysOf(t, Before(j, t))]

CreatedKeys(j) == [t \in KeyedTables |-> KeysOf(t, Created(j, t))]

NoKeys == [t \in KeyedTables |-> {}]

\* the routines that import one entity kind from one list fetch
SingleRoutines ==
    {"seasons", "circuits", "drivers", "teams", "rounds", "team_drivers"}

\* the keys one such routine, with the arguments of jb and every fetch
\* succeeding, adds to a store that holds `keys`
Gain(jb, keys) ==
    LET y == jb.season_year
    IN CASE jb.routine = "seasons" ->
              [NoKeys EXCEPT !.season = ScopeYears(jb) \ keys.season]
         [] jb.routine = "circuits" ->
              [NoKeys EXCEPT !.circuit =
                  {c.circuitId : c \in Seq2Set(UpCircuits)} \ keys.circuit]
         [] jb.routine = "drivers" ->
              [NoKeys EXCEPT !.driver =
                  {x.driverId : x \in Seq2Set(UpDrivers)} \ keys.driver]
         [] jb.routine = "teams" ->
              [NoKeys EXCEPT !.team =
                  {x.constructorId : x \in Seq2Set(UpConstructors)} \ keys.team]
         [] jb.routine = "rounds" ->
              IF y \notin keys.season THEN NoKeys
              ELSE [NoKeys EXCEPT
                      !.round = {round_reference_of(y, race.round) :
                                    race \in Seq2Set(UpRaces(y))} \ keys.round,
                      !.circuit = {race.Circuit.circuitId :
                                      race \in Seq2Set(UpRaces(y))} \ keys.circuit]
         [] jb.routine = "team_drivers" ->
              [NoKeys EXCEPT !.team_driver =
                  {<<q.constructorId, q.driverId, y>> :
                      q \in {q \in Seq2Set(pairings(UpStandings(y), y)) :
                               /\ q.driverId \in keys.driver
                               /\ q.constructorId \in keys.team}}
                  \ keys.team_driver]

\* the list fetch of the routine a job is in
CurFetch(jb, resp) ==
    CASE jb.cur = "seasons" -> Fetched("seasons", 0, 0, resp)
      [] jb.cur = "circuits" -> Fetched("circuits", 0, 0, resp)
      [] jb.cur = "drivers" -> Fetched("drivers", 0, 0, resp)
      [] jb.cur = "teams" -> Fetched("constructors", 0, 0, resp)
      [] jb.cur = "rounds" -> Fetched("races", jb.season_year, 0, resp)
      [] jb.cur = "team_drivers" -> Fetched("standings", jb.season_year, 0, resp)

\* a routine whose list fetch failed returns 0, creates no row and does not
\* raise
FailedFetchContained ==
    \A j \in JobIds :
        LET jb == jobs[j]
        IN /\ (jb.status = "running" /\ jb.cur \in SingleRoutines
               /\ CurFetch(jb, "http_error") \in jb.flog)
              => /\ jb.pc = "ret" /\ jb.count = 0
                 /\ Sizes(db) = jb.cpre
           /\ (jb.routine \in SingleRoutines /\ \E f \in jb.flog : ~f.ok)
              => /\ jb.status # "raised"
                 /\ \A t \in DOMAIN db : Created(j, t) = <<>>
                 /\ jb.status = "returned" => jb.ret = 0

\* after a routine whose list fetch failed, the next job, a routine of
\* another kind whose fetches succeed, creates the keys it would have created
\* had that fetch succeeded
Unaffected(j) ==
    LET a == jobs[j - 1]
        b == jobs[j]
        held == KeysBefore(j - 1)
        otherwise == [t \in KeyedTables |-> held[t] \cup Gain(a, held)[t]]
    IN (/\ a.routine \in SingleRoutines /\ a.status = "returned"
        /\ \E f \in a.flog : ~f.ok
        /\ b.routine \in SingleRoutines /\ b.routine # a.routine
        /\ b.status = "returned" /\ b.failed = 0)
       => CreatedKeys(j) = Gain(b, otherwise)

\* the pairs of kinds of which the second reads rows of the first
Dependent ==
    {<<"seasons", "rounds">>, <<"circuits", "rounds">>, <<"rounds", "circuits">>,
     <<"drivers", "team_drivers">>, <<"teams", "team_drivers">>}

\* C10 as stated: a routine whose fetch fails returns 0, creates no row and
\* raises nothing, and the routine of any other kind, called next, creates the
\* rows it would create had that fetch succeeded.
C10_FailureContained ==
    /\ FailedFetchContained
    /\ \A j \in JobIds \ {1} : Unaffected(j)

\* C10, amended: ... and the routine of another kind, called next, creates
\* the rows it would create had that fetch succeeded, unless it reads rows of
\* the failed kind: rounds after seasons or circuits, circuits after rounds,
\* team-drivers after drivers or teams.
C10_FailureContainedIndependent ==
    /\ FailedFetchContained
    /\ \A j \in JobIds \ {1} :
          <<jobs[j - 1].routine, jobs[j].routine>> \notin Dependent
          => Unaffected(j)

\* C10, its case: the circuit fetch failed, the driver import that followed
\* created every driver
C10_Witness ==
    /\ jobs[1].routine = "circuits" /\ jobs[1].status = "returned"
    /\ jobs[1].failed = 1 /\ jobs[1].ret = 0
    /\ db.circuit = <<>>
    /\ jobs[2].routine = "drivers" /\ jobs[2].status = "returned"
    /\ jobs[2].ret = Len(UpDrivers)

----------------------------------------------------------------------------
\* C11: no import routine aborts because a record carries a numeric or date
\* field that does not parse: the field is stored as absent, nothing is
\* raised, and the later records of the same fetch are still processed. Here:
\* no job ever dies of the ValueError of int() or float(), and a driver import
\* that returned after a fetch that did not fail has left no driver of the
\* list without a row.
C11_MalformedTolerated ==
    \A j \in JobIds :
        /\ jobs[j].error # "ValueError"
        /\ (jobs[j].routine = "drivers" /\ jobs[j].status = "returned"
             /\ jobs[j].failed = 0)
              => \A k \in 1..Len(UpDrivers) :
                    get_driver_by_reference(db, UpDrivers[k].driverId) # None

\* a season import over 1999..2000 met the year text "200x" after it had
\* created 1999: it died of ValueError and the record for 2000 behind it was
\* never looked at
C11_Witness ==
    \E j \in JobIds :
        /\ jobs[j].routine = "seasons" /\ jobs[j].error = "ValueError"
        /\ jobs[j].start_year = 1999 /\ jobs[j].end_year = 2000
        /\ get_season_by_year(db, 1999) # None
        /\ get_season_by_year(db, 2000) = None

----------------------------------------------------------------------------
\* C12: the fetcher never raises past its boundary: whatever the GET ends in
\* (a status other than 200, a transport exception, a body that is no JSON, a
\* JSON body of any shape without the expected key path) each fetch_* returns
\* an empty list. Here: no job ever dies of a TypeError out of a fetch_*, and
\* a routine whose one fetch failed returns the count 0.
C12_FetcherNeverRaises ==
    \A j \in JobIds :
        /\ jobs[j].error # "TypeError"
        /\ (jobs[j].routine \in {"seasons", "circuits", "drivers", "teams",
                                 "team_drivers"}
            /\ jobs[j].status = "returned" /\ jobs[j].failed > 0)
              => jobs[j].ret = 0

\* GET circuits.json answered 200 with a body such as {"MRData": null}:
\* fetch_circuits raised TypeError and the circuit import died of it, having
\* logged the fetch as failed and created nothing
C12_Witness ==
    \E j \in JobIds :
        /\ jobs[j].routine = "circuits" /\ jobs[j].error = "TypeError"
        /\ jobs[j].status = "raised" /\ jobs[j].failed = 1
        /\ Created(j, "circuit") = <<>>

----------------------------------------------------------------------------
\* C13: import is additive-only: every row, of whatever kind, that exists
\* before a step of an import routine exists with the same field values after
\* it; no routine updates or deletes a row, also when the upstream record of
\* the same natural key now carries other field values.
C13_AdditiveOnly ==
    [][\A t \in DOMAIN db :
          /\ Len(db[t]) <= Len(db'[t])
          /\ SubSeq(db'[t], 1, Len(db[t])) = db[t]]_vars

\* a driver import has gone past the record of hakkinen, which now carries
\* another dateOfBirth text than when the row was created: the row still has
\* the date of birth it was created with
C13_Witness ==
    \E j \in JobIds :
        /\ jobs[j].cur = "drivers" /\ jobs[j].data = DirtyDrivers /\ jobs[j].i = 3
        /\ \E k \in 1..Len(db.driver) :
              /\ db.driver[k].reference = "hakkinen"
              /\ db.driver[k].id <= jobs[j].pre.driver
              /\ db.driver[k].date_of_birth =
                    Some([year |-> 1968, month |-> 9, day |-> 28])

----------------------------------------------------------------------------
\* C14: duplicate-freedom: with the import routines run one after the other,
\* no two Season rows share a year, no two Circuit, Driver, Team or Round rows
\* share a reference and no two TeamDriver rows share (team_id, driver_id,
\* season_year), also when one upstream response lists a natural key twice.
C14_DuplicateFree ==
    \A t \in KeyedTables :
        \A a, b \in 1..Len(db[t]) :
            a # b => KeyOf(t, db[t][a]) # KeyOf(t, db[t][b])

\* a team-driver import for 2000, whose response lists schumacher with
\* ferrari twice, found both locally, went through the whole list and
\* created the one row
C14_Witness ==
    \E j \in JobIds :
        /\ jobs[j].routine = "team_drivers" /\ jobs[j].season_year = 2000
        /\ jobs[j].status = "returned" /\ jobs[j].failed = 0
        /\ jobs[j].ret = 1
        /\ Len(Created(j, "team_driver")) = 1

----------------------------------------------------------------------------
\* the routine, with its year, that an import_all job is in
Stage(jb) == <<jb.cur, jb.season_year>>

\* the stage the claimed order puts after the stage of jb
StageAfter(jb) ==
    CASE jb.cur = "seasons" -> <<"circuits", 0>>
      [] jb.cur = "circuits" -> <<"drivers", 0>>
      [] jb.cur = "drivers" -> <<"teams", 0>>
      [] jb.cur = "teams" -> <<"rounds", jb.start_year>>
      [] jb.cur = "rounds" -> <<"team_drivers", jb.season_year>>
      [] jb.cur = "team_drivers" -> <<"rounds", jb.season_year + 1>>

C15_Step(j) ==
    LET a == jobs[j]
        b == jobs'[j]
    IN /\ (a.status = "idle" /\ b.routine = "all") => Stage(b) = <<"seasons", 0>>
       /\ (a.routine = "all" /\ a.status = "running" /\ b.status = "running"
           /\ Stage(b) # Stage(a))
            => /\ a.pc = "ret" /\ a.sess = NoSess
               /\ Stage(b) = StageAfter(a)
               /\ b.pc = "fetch"
               /\ b.cur \in {"rounds", "team_drivers"}
                    => (a.start_year <= b.season_year
                        /\ b.season_year <= a.end_year)

\* C15: within one import_all_f1_data job the routines run in this order:
\* seasons, circuits, drivers, teams, each once; then year by year from
\* start_year to end_year the round import of the year, cascaded session
\* imports included, completes before the team-driver import of the year
\* starts, and nothing of the next year starts before that has finished.
C15_RoutineOrder == [][\A j \in JobIds : C15_Step(j)]_vars

\* an import_all job over 1999..2000 is in the round import of 2000, the
\* rounds and the team-drivers of 1999 behind it
C15_Witness ==
    \E j \in JobIds :
        /\ jobs[j].routine = "all" /\ jobs[j].start_year = 1999
        /\ Stage(jobs[j]) = <<"rounds", 2000>>
        /\ jobs[j].results.rounds = 1 /\ jobs[j].results.team_drivers = 1

----------------------------------------------------------------------------
\* two jobs of one routine are under way at the same time
Overlap(j, k) ==
    /\ j # k
    /\ jobs[j].status = "running" /\ jobs[k].status = "running"
    /\ jobs[j].cur = jobs[k].cur

----------------------------------------------------------------------------
\* whether the store holds a TeamDriver row for the references and the year
Paired(driver_reference, team_reference, season_year) ==
    \E k \in 1..Len(db.team_driver) :
        /\ db.driver[db.team_driver[k].driver_id].reference = driver_reference
        /\ db.team[db.team_driver[k].team_id].reference = team_reference
        /\ db.team_driver[k].season_year = season_year

\* one pass of the loop of import_team_drivers_for_season by job j
C17_Step(j) ==
    LET a == jobs[j]
        b == jobs'[j]
        pairing == a.data[a.i]
        wanted == /\ \E k \in 1..Len(db.driver) :
                        db.driver[k].reference = pairing.driverId
                  /\ \E k \in 1..Len(db.team) :
                        db.team[k].reference = pairing.constructorId
                  /\ ~Paired(pairing.driverId, pairing.constructorId, a.season_year)
    IN (a.status = "running" /\ a.cur = "team_drivers" /\ a.pc = "loop"
        /\ b # a /\ b.status # "killed")
         => /\ b.status = "running"
            /\ Len(db'.team_driver) = Len(db.team_driver) + (IF wanted THEN 1 ELSE 0)
            /\ wanted => LET row == db'.team_driver[Len(db'.team_driver)]
                         IN /\ db'.driver[row.driver_id].reference = pairing.driverId
                            /\ db'.team[row.team_id].reference = pairing.constructorId
                            /\ row.season_year = a.season_year
            /\ IF a.i < Len(a.data)
               THEN b.pc = "loop" /\ b.i = a.i + 1 /\ b.data = a.data
               ELSE b.pc = "ret"

\* C17: import_team_drivers_for_season creates a TeamDriver row for a fetched
\* pairing only if the Driver and the Team of its references both exist and
\* no TeamDriver with that (team_id, driver_id, year) exists; a pairing whose
\* Driver or Team is missing is skipped without raising, and the later
\* pairings of the same fetch are still processed.
C17_PairingNeedsBoth == [][\A j \in JobIds : C17_Step(j)]_vars

\* the team-driver import of 2000 has created schumacher with ferrari, has
\* skipped verstappen, of whom there is no Driver row, and is at the pairing
\* behind him
C17_Witness ==
    \E j \in JobIds :
        /\ jobs[j].cur = "team_drivers" /\ jobs[j].season_year = 2000
        /\ jobs[j].pc = "loop" /\ jobs[j].i = 3 /\ jobs[j].count = 1
        /\ get_driver_by_reference(db, "verstappen") = None
        /\ Paired("schumacher", "ferrari", 2000)

----------------------------------------------------------------------------
\* the routine a job of each endpoint starts in
FirstRoutine(routine) == IF routine = "all" THEN "seasons" ELSE routine

C18_Step(j) ==
    LET a == jobs[j]
        b == jobs'[j]
    IN /\ (a.status = "idle" /\ b.status # "idle" /\ b.routine # "sessions")
            => /\ b.ack = "in_progress"
               /\ b.status = "running" /\ b.cur = FirstRoutine(b.routine)
               /\ b.pc = "fetch" /\ b.flog = {}
               /\ db' = db
               /\ \A k \in JobIds \ {j} : jobs'[k] = jobs[k]
       /\ a.status # "idle" => b.ack = a.ack /\ b.routine = a.routine

\* C18: every import trigger endpoint enqueues exactly one background job for
\* its routine and answers with status "in_progress" without waiting for the
\* job; the response is the same whether the job later succeeds, imports
\* nothing or dies with an error.
C18_Acknowledged == [][\A j \in JobIds : C18_Step(j)]_vars

\* one job died of an error and another returned with rows imported: each
\* had been answered "in_progress"
C18_Witness ==
    \E j, k \in JobIds :
        /\ jobs[j].status = "raised" /\ jobs[j].ack = "in_progress"
        /\ jobs[k].status = "returned" /\ jobs[k].ack = "in_progress"
        /\ jobs[k].routine # "all" /\ jobs[k].ret > 0

----------------------------------------------------------------------------
\* the number of rows in the store
Rows(d) == Len(d.season) + Len(d.circuit) + Len(d.driver) + Len(d.team)
           + Len(d.round) + Len(d.session) + Len(d.team_driver)

\* C19: Round creation and its session cascade are separate commits: the Round
\* row is persisted before any of its Sessions and each Session is persisted
\* on its own, so that a job which stops in the middle of
\* import_sessions_for_round leaves the Round with a proper subset of its
\* Sessions. Here: no step persists more than one row, the step that persists
\* a Round persists no Session, and a Session is persisted only for a Round
\* the store already holds.
C19_SeparateCommits ==
    [][/\ Rows(db') <= Rows(db) + 1
       /\ Len(db'.round) > Len(db.round) => db'.session = db.session
       /\ Len(db'.session) > Len(db.session) =>
             \E k \in 1..Len(db.round) :
                db.round[k].id = db'.session[Len(db'.session)].round_id]_vars

\* a job was stopped inside the session cascade of round 2000-1, which it had
\* created: the Round is there with its race and qualifying sessions and
\* without the practice sessions
C19_Witness ==
    \E j \in JobIds :
        /\ jobs[j].status = "killed"
        /\ \E k \in 1..Len(db.round) :
              /\ db.round[k].reference = round_reference_of(2000, <<"1">>)
              /\ db.round[k].id > jobs[j].pre.round
              /\ session_types_of(db.session, db.round[k].id)
                    = <<"race", "qualifying">>
              /\ full_session_types(2000, Race2000_1)
                    = <<"race", "qualifying", "practice1", "practice2", "practice3">>

----------------------------------------------------------------------------
\* the positions inside import_sessions_for_round
InSessions == {"s_fetch", "s_quali", "s_sprint", "s_p1", "s_p2", "s_p3", "s_ret"}

\* one step of job j, a round import
C20_Step(j) ==
    LET a == jobs[j]
        b == jobs'[j]
        created == Len(db'.round) > Len(db.round)
    IN (a.status = "running" /\ a.cur = "rounds" /\ b.status = "running" /\ b # a)
         => \* the call is made where a Round has just been created, for it
            /\ (b.pc \in InSessions /\ a.pc \notin InSessions)
                  => /\ a.pc = "round" /\ created
                     /\ b.sess.round_id = db'.round[Len(db'.round)].id
                     /\ b.sess.round_num = int(a.data[a.i].round)
            \* and it is made wherever one has been
            /\ created => (a.pc = "round" /\ b.pc = "s_fetch" /\ b.i = a.i)
            \* a race whose Round exists is passed over without the call
            /\ (a.pc = "round" /\ ~created)
                  => (db' = db /\ b.pc \in {"loop", "ret"} /\ b.sess = NoSess)
            \* the call runs to its end before the loop goes on
            /\ a.pc \in InSessions
                  => \/ /\ b.pc \in InSessions /\ b.i = a.i
                        /\ b.sess.round_id = a.sess.round_id
                     \/ a.pc = "s_ret" /\ b.pc \in {"loop", "ret"}
            \* a Session goes to a Round created in this run only
            /\ Len(db'.session) > Len(db.session)
                  => /\ a.pc \in InSessions
                     /\ db'.session[Len(db'.session)].round_id > a.pre.round

\* C20: in import_rounds_for_season, import_sessions_for_round is invoked
\* once for each Round created in that run, synchronously and before the next
\* race of the list is processed, and never for a race whose Round already
\* existed; hence a round import for a year whose Rounds all exist creates no
\* Session row.
C20_CascadeOnCreateOnly == [][\A j \in JobIds : C20_Step(j)]_vars

\* the round import of 2000 was run again after one that had created both
\* Rounds and called import_sessions_for_round for each: the second run made
\* no call and created no Session
C20_Witness ==
    /\ jobs[1].status = "returned" /\ Len(jobs[1].calls) = 2
    /\ Len(Created(1, "round")) = 2
    /\ jobs[2].routine = "rounds" /\ jobs[2].season_year = 2000
    /\ jobs[2].status = "returned" /\ jobs[2].failed = 0
    /\ jobs[2].calls = <<>>
    /\ Created(2, "session") = <<>>

----------------------------------------------------------------------------
\* the rows of one type among those a completed call created
OfType(c, session_type) ==
    SelectSeq(CreatedBy(c), LAMBDA r : r.session_type = session_type)

\* C21: whenever import_sessions_for_round finds the race entry of its round
\* number in the re-fetched race list, it creates exactly one Session of type
\* "race", for round_id, whatever the qualifying and sprint fetches return and
\* whatever the year is.
C21_OneRaceSession ==
    \A k \in 1..Len(AllCalls) :
        LET c == AllCalls[k]
        IN c.found =>
             /\ Len(OfType(c, "race")) = 1
             /\ CreatedBy(c)[1].session_type = "race"
             /\ CreatedBy(c)[1].round_id = c.round_id

\* a call for round 1 of 1999 found the race entry while its qualifying
\* fetch failed: it created the race session, and the sprint session behind
C21_Witness ==
    \E k \in 1..Len(AllCalls) :
        LET c == AllCalls[k]
        IN /\ c.found /\ c.season_year = 1999 /\ ~c.quali /\ c.sprint
           /\ SessionTypes(CreatedBy(c)) = <<"race", "sprint">>

----------------------------------------------------------------------------
\* how many rows of a type a completed call created
created_of(c, session_type) == Len(OfType(c, session_type))

\* C22: import_sessions_for_round creates a "qualifying" Session if and only
\* if the qualifying-results fetch returns a non-empty sequence, and a
\* "sprint" Session if and only if the sprint-results fetch returns a
\* non-empty sequence, each independently of the other and of the keys of the
\* race payload; a failed qualifying or sprint fetch yields no session of
\* that type.
C22_ResultsDecide ==
    \A k \in 1..Len(AllCalls) :
        LET c == AllCalls[k]
        IN /\ created_of(c, "qualifying") = (IF c.found /\ c.quali THEN 1 ELSE 0)
           /\ created_of(c, "sprint") = (IF c.found /\ c.sprint THEN 1 ELSE 0)

\* a call for round 1 of 1999, whose payload has a Sprint key and no
\* Qualifying key: the qualifying fetch returned results, the sprint fetch
\* failed, and a qualifying session and no sprint session were created
C22_Witness ==
    \E k \in 1..Len(AllCalls) :
        LET c == AllCalls[k]
        IN /\ c.found /\ c.season_year = 1999 /\ c.quali /\ ~c.sprint
           /\ CallRace(c).Qualifying = None /\ CallRace(c).Sprint # None
           /\ UpSprint(c.season_year, c.round_num) # <<>>
           /\ SessionTypes(CreatedBy(c)) = <<"race", "qualifying">>

----------------------------------------------------------------------------
\* C23: for a year from 2000 on, import_sessions_for_round creates practice1
\* and practice2 unconditionally, also when the payload has no FirstPractice
\* or SecondPractice key, and creates practice3 if and only if the sprint
\* fetch returned an empty sequence and the race payload has the key
\* "ThirdPractice", whatever the value under that key.
C23_PracticeFromModernEra ==
    \A k \in 1..Len(AllCalls) :
        LET c == AllCalls[k]
        IN (c.found /\ c.season_year >= ModernEra) =>
             /\ created_of(c, "practice1") = 1
             /\ created_of(c, "practice2") = 1
             /\ created_of(c, "practice3") =
                  (IF ~c.sprint /\ CallRace(c).ThirdPractice # None THEN 1 ELSE 0)

\* the two rounds of 2000: round 1 has no SecondPractice key and a
\* ThirdPractice without a date, and got all three practice sessions; round 2
\* has no FirstPractice key and a ThirdPractice on a sprint weekend, and got
\* the first two
C23_Witness ==
    \E k, m \in 1..Len(AllCalls) :
        LET c == AllCalls[k]
            e == AllCalls[m]
        IN /\ c.found /\ c.season_year = 2000 /\ c.round_num = 1 /\ ~c.sprint
           /\ CallRace(c).SecondPractice = None
           /\ DictGet(CallRace(c).ThirdPractice).date = None
           /\ SessionTypes(CreatedBy(c)) =
                <<"race", "qualifying", "practice1", "practice2", "practice3">>
           /\ e.found /\ e.season_year = 2000 /\ e.round_num = 2 /\ e.sprint
           /\ CallRace(e).FirstPractice = None
           /\ CallRace(e).ThirdPractice # None
           /\ SessionTypes(CreatedBy(e)) =
                <<"race", "qualifying", "sprint", "practice1", "practice2">>

----------------------------------------------------------------------------
\* the Rounds for which job j, importing rounds, has called
\* import_sessions_for_round: the calls that returned and the one under way
CascadeRounds(j) ==
    IF jobs[j].routine = "sessions" THEN {}
    ELSE {jobs[j].calls[k].round_id : k \in 1..Len(jobs[j].calls)}
         \cup (IF jobs[j].status = "running" /\ jobs[j].pc \in InSessions
               THEN {jobs[j].sess.round_id} ELSE {})

\* C24: a job gives up control at its fetches only, and the existence check
\* and the create of one natural key are not separated by such a point; so
\* however two concurrent import jobs interleave on one store, no insert is
\* rejected by a uniqueness constraint, no natural key and no TeamDriver
\* triple is stored twice, and each Round gets its sessions from the cascade
\* of at most one job.
C24_CooperativeSafe ==
    /\ \A j \in JobIds : jobs[j].status # "raised"
    /\ \A t \in KeyedTables :
          \A k, m \in 1..Len(db[t]) :
              KeyOf(t, db[t][k]) = KeyOf(t, db[t][m]) => k = m
    /\ \A j, k \in JobIds : j # k => CascadeRounds(j) \cap CascadeRounds(k) = {}

\* two full imports of 2000 ran interleaved and both returned: one created
\* round 1 and gave it its sessions while the other, awaiting its fetches in
\* between, created round 2 and gave it its sessions
C24_Witness ==
    /\ jobs[1].routine = "all" /\ jobs[2].routine = "all"
    /\ jobs[1].status = "returned" /\ jobs[2].status = "returned"
    /\ Len(db.round) = 2 /\ Len(db.team_driver) > 0
    /\ CascadeRounds(1) # {} /\ CascadeRounds(2) # {}
    /\ CascadeRounds(1) \cup CascadeRounds(2) = {1, 2}

----------------------------------------------------------------------------
\* one step, seen from job j: the store rejecting an insert of the job, and
\* whatever happens once it has
C25_Step(j) ==
    LET a == jobs[j]
        b == jobs'[j]
    IN /\ (a.status = "running" /\ b.error = "IntegrityError") =>
             \* the error leaves the routine, and import_all_f1_data with it
             /\ b.status = "raised" /\ b.cur = "none" /\ b.pc = "done"
             \* no count is returned
             /\ b.ret = 0 /\ b.results = a.results
             \* the rejected row is not stored, the rows before it remain
             /\ db' = db
       /\ a.error = "IntegrityError" =>
             \* the records and routines left over are not processed
             /\ b = a
             /\ \A t \in DOMAIN db : SubSeq(db'[t], 1, Len(db[t])) = db[t]

\* C25: when the storage layer rejects a create, the import routine does not
\* catch the error: it propagates out of the routine and out of
\* import_all_f1_data, the remaining records and routines of the job are not
\* processed, the rows committed before the failure remain in the store, and
\* no count is returned.
C25_RejectionPropagates == [][\A j \in JobIds : C25_Step(j)]_vars

\* a full import stored the seasons and the first circuit, and the store
\* rejected the second circuit: the job has raised, the rows are there, and
\* no driver was imported
C25_Witness ==
    \E j \in JobIds :
        /\ jobs[j].routine = "all" /\ jobs[j].status = "raised"
        /\ jobs[j].error = "IntegrityError"
        /\ jobs[j].pre.circuit = 0 /\ Len(db.circuit) = 1
        /\ Len(db.season) > 0 /\ Len(db.driver) = 0
        /\ \A f \in jobs[j].flog : f.resource \in {"seasons", "circuits"}

----------------------------------------------------------------------------
\* whether the list fetch of a resource, for a year, failed in job jb
fetch_failed(jb, resource, season) ==
    \E f \in jb.flog : f.resource = resource /\ f.season = season /\ ~f.ok

\* the keys import_all_f1_data, with the arguments and the failed fetches of
\* jb, adds to a store holding `held`; `seasons`, `drivers` and `teams` are
\* the keys of those kinds the later routines find
all_gain(jb, held, seasons, drivers, teams) ==
    LET years == jb.start_year..jb.end_year
    IN [season |-> IF fetch_failed(jb, "seasons", 0) THEN {}
                   ELSE ScopeYears(jb) \ held.season,
        circuit |-> IF fetch_failed(jb, "circuits", 0) THEN {}
                    ELSE {c.circuitId : c \in Seq2Set(UpCircuits)} \ held.circuit,
        driver |-> IF fetch_failed(jb, "drivers", 0) THEN {}
                   ELSE {x.driverId : x \in Seq2Set(UpDrivers)} \ held.driver,
        team |-> IF fetch_failed(jb, "constructors", 0) THEN {}
                 ELSE {x.constructorId : x \in Seq2Set(UpConstructors)} \ held.team,
        round |-> UNION {IF y \notin seasons \/ fetch_failed(jb, "races", y) THEN {}
                         ELSE {round_reference_of(y, race.round) :
                                  race \in Seq2Set(UpRaces(y))} : y \in years}
                    \ held.round,
        team_driver |->
             UNION {IF fetch_failed(jb, "standings", y) THEN {}
                    ELSE {<<q.constructorId, q.driverId, y>> :
                            q \in {q \in Seq2Set(pairings(UpStandings(y), y)) :
                                     /\ q.driverId \in drivers
                                     /\ q.constructorId \in teams}} : y \in years}
               \ held.team_driver]

\* the counts that go with such keys
counts_of(gain) ==
    [seasons |-> Cardinality(gain.season), circuits |-> Cardinality(gain.circuit),
     drivers |-> Cardinality(gain.driver), teams |-> Cardinality(gain.team),
     rounds |-> Cardinality(gain.round),
     team_drivers |-> Cardinality(gain.team_driver)]

\* the results of import_all_f1_data if a failed fetch took away the rows of
\* the step that issued it and of no other: the later routines find the
\* seasons, drivers and teams they would have found had no fetch failed
results_issuer_only(jb, held) ==
    counts_of(all_gain(jb, held,
                 held.season \cup ScopeYears(jb),
                 held.driver \cup {x.driverId : x \in Seq2Set(UpDrivers)},
                 held.team \cup {x.constructorId : x \in Seq2Set(UpConstructors)}))

\* the results if the later routines find what the earlier ones stored
results_as_stored(jb, held) ==
    LET base == all_gain(jb, held, {}, {}, {})
    IN counts_of(all_gain(jb, held, held.season \cup base.season,
                          held.driver \cup base.driver, held.team \cup base.team))

\* every routine of a full import that has returned was executed, for every
\* year: each has issued its list fetch, the round import of a year with a
\* Season at least
all_executed(jb, d) ==
    /\ \A resource \in {"seasons", "circuits", "drivers", "constructors"} :
          \E f \in jb.flog : f.resource = resource
    /\ \A y \in jb.start_year..jb.end_year :
          /\ \E f \in jb.flog : f.resource = "standings" /\ f.season = y
          /\ get_season_by_year(d, y) # None
               => \E f \in jb.flog : f.resource = "races" /\ f.season = y

\* a full import does not raise, and where it returns it has executed every
\* routine
C26_Returns(j) ==
    LET a == jobs[j]
        b == jobs'[j]
    IN (a.routine = "all" /\ a.status = "running") =>
          /\ b.status # "raised"
          /\ b.status = "returned" =>
                /\ DOMAIN b.results = DOMAIN ZeroResults
                /\ all_executed(b, db')

\* a full import that is under way returns
C26_Terminates ==
    \A j \in JobIds :
        (jobs[j].routine = "all" /\ jobs[j].status = "running")
            ~> (jobs[j].status = "returned")

----------------------------------------------------------------------------
\* the rows of a table with a given id
with_id(table, id) == {k \in 1..Len(table) : table[k].id = id}

\* a Round row is the Round of a race of year y: its reference, its Season
\* and its Circuit are those of the race
round_of(r, y, race) ==
    /\ r.reference = round_reference_of(y, race.round)
    /\ \E k \in with_id(db.season, r.season_id) : db.season[k].year = y
    /\ \E k \in with_id(db.circuit, r.circuit_id) :
          db.circuit[k].reference = race.Circuit.circuitId

\* C27: every Round created by import_rounds_for_season(year) has the
\* reference "{year}-{round}", the season_id of the Season row of that year
\* and the circuit_id of the Circuit row whose reference is the circuitId of
\* the race; every Session created by its cascade has the id of that Round as
\* round_id. In every reachable state each Round references one existing
\* Season and one existing Circuit, and each Session one existing Round.
C27_ReferencesResolve ==
    /\ \A k \in 1..Len(db.round) :
          /\ Cardinality(with_id(db.season, db.round[k].season_id)) = 1
          /\ Cardinality(with_id(db.circuit, db.round[k].circuit_id)) = 1
          /\ \E y \in UpYears : \E race \in Seq2Set(UpRaces(y)) :
                round_of(db.round[k], y, race)
    /\ \A k \in 1..Len(db.session) :
          Cardinality(with_id(db.round, db.session[k].round_id)) = 1
    /\ \A j \in JobIds : \A k \in 1..Len(jobs[j].calls) :
          LET c == jobs[j].calls[k]
          IN jobs[j].routine # "sessions" =>
               /\ \A m \in with_id(db.round, c.round_id) :
                     /\ db.round[m].round_number = c.round_num
                     /\ \E race \in Seq2Set(UpRaces(c.season_year)) :
                           /\ int(race.round) = c.round_num
                           /\ round_of(db.round[m], c.season_year, race)
               /\ \A m \in 1..Len(CreatedBy(c)) :
                     CreatedBy(c)[m].round_id = c.round_id

\* a full import of 1999 and 2000 whose circuits fetch failed has returned:
\* the round imports created the circuits themselves, the three Rounds lie
\* under two Seasons and two Circuits, and each has its sessions
C27_Witness ==
    \E j \in JobIds :
        /\ jobs[j].routine = "all" /\ jobs[j].status = "returned"
        /\ jobs[j].pre = Sizes(EmptyDb)
        /\ fetch_failed(jobs[j], "circuits", 0)
        /\ Len(db.round) = 3 /\ Len(db.circuit) = 2 /\ Len(db.season) = 2
        /\ {db.round[k].season_id : k \in 1..3} = {1, 2}
        /\ {db.round[k].circuit_id : k \in 1..3} = {1, 2}
        /\ {db.session[k].round_id : k \in 1..Len(db.session)} = {1, 2, 3}

----------------------------------------------------------------------------
\* the keys of a list that a sequence of keys does not hold yet, appended to
\* it in the order of the list, each once
RECURSIVE add_new(_, _)
add_new(have, keys) ==
    IF keys = <<>> THEN have
    ELSE add_new(IF Head(keys) \in Seq2Set(have) THEN have
                 ELSE Append(have, Head(keys)),
                 Tail(keys))

\* the keys of a list of upstream records, in the order of the list
season_years(data) == [k \in 1..Len(data) |-> int(data[k].season)]

circuit_ids(data) == [k \in 1..Len(data) |-> data[k].circuitId]

driver_ids(data) == [k \in 1..Len(data) |-> data[k].driverId]

constructor_ids(data) == [k \in 1..Len(data) |-> data[k].constructorId]

\* the keys of every table, in the order of creation, after one routine has
\* run on a store whose keys are K: a function of K, of the arguments of the
\* routine and of which fetches of job jb failed
after_routine(K, jb, cur, y) ==
    CASE cur = "seasons" ->
           IF fetch_failed(jb, "seasons", 0) THEN K
           ELSE [K EXCEPT !.season =
                   add_new(@, SelectSeq(season_years(UpSeasons),
                                LAMBDA x : jb.start_year <= x /\ x <= jb.end_year))]
      [] cur = "circuits" ->
           IF fetch_failed(jb, "circuits", 0) THEN K
           ELSE [K EXCEPT !.circuit = add_new(@, circuit_ids(UpCircuits))]
      [] cur = "drivers" ->
           IF fetch_failed(jb, "drivers", 0) THEN K
           ELSE [K EXCEPT !.driver = add_new(@, driver_ids(UpDrivers))]
      [] cur = "teams" ->
           IF fetch_failed(jb, "constructors", 0) THEN K
           ELSE [K EXCEPT !.team = add_new(@, constructor_ids(UpConstructors))]
      [] cur = "rounds" ->
           IF y \notin Seq2Set(K.season) \/ fetch_failed(jb, "races", y) THEN K
           ELSE [K EXCEPT
                   !.circuit = add_new(@, [k \in 1..Len(UpRaces(y)) |->
                                              UpRaces(y)[k].Circuit.circuitId]),
                   !.round = add_new(@, [k \in 1..Len(UpRaces(y)) |->
                                 round_reference_of(y, UpRaces(y)[k].round)])]
      [] cur = "team_drivers" ->
           IF fetch_failed(jb, "standings", y) THEN K
           ELSE LET found == SelectSeq(pairings(UpStandings(y), y),
                               LAMBDA q : /\ q.driverId \in Seq2Set(K.driver)
                                          /\ q.constructorId \in Seq2Set(K.team))
                IN [K EXCEPT !.team_driver =
                      add_new(@, [k \in 1..Len(found) |->
                                    <<found[k].constructorId, found[k].driverId, y>>])]
      [] OTHER -> K

\* the same after the years y..end_year of import_all_f1_data
RECURSIVE after_years(_, _, _)
after_years(K, jb, y) ==
    IF y > jb.end_year THEN K
    ELSE after_years(after_routine(after_routine(K, jb, "rounds", y),
                                   jb, "team_drivers", y),
                     jb, y + 1)

\* the same after the whole job
after_job(K, jb) ==
    IF jb.routine = "all"
    THEN after_years(
           after_routine(after_routine(after_routine(after_routine(
               K, jb, "seasons", 0), jb, "circuits", 0), jb, "drivers", 0),
               jb, "teams", 0),
           jb, jb.start_year)
    ELSE after_routine(K, jb, jb.routine, jb.season_year)

\* the keys of the first n rows of a table, in the order of the rows
keys_upto(t, n) == [k \in 1..n |-> KeyOf(t, db[t][k])]

\* the session types one call creates, in their order: a function of its
\* arguments, of the payload and of what its fetches returned
types_of_call(c) ==
    IF ~c.found THEN <<>>
    ELSE <<"race">>
         \o (IF c.quali THEN <<"qualifying">> ELSE <<>>)
         \o (IF c.sprint THEN <<"sprint">> ELSE <<>>)
         \o (IF c.season_year < ModernEra THEN <<>>
             ELSE <<"practice1", "practice2">>
                  \o (IF ~c.sprint /\ CallRace(c).ThirdPractice # None
                      THEN <<"practice3">> ELSE <<>>))

\* the session rows of a job are those of its calls, one call after the other
sessions_in_call_order(j) ==
    LET calls == jobs[j].calls
        made == Created(j, "session")
    IN /\ \A k \in 1..Len(calls) :
             /\ calls[k].first = (IF k = 1 THEN jobs[j].pre.session
                                  ELSE calls[k - 1].first + calls[k - 1].count)
             /\ SessionTypes(CreatedBy(calls[k])) = types_of_call(calls[k])
       /\ Len(made) = (IF calls = <<>> THEN 0
                       ELSE calls[Len(calls)].first + calls[Len(calls)].count
                            - jobs[j].pre.session)
       /\ jobs[j].routine # "sessions" =>
             [k \in 1..Len(calls) |-> calls[k].round_id]
               = [k \in 1..Len(Created(j, "round")) |-> Created(j, "round")[k].id]

\* the count a single routine returns: the rows its table gained
count_of(j, K) ==
    LET t == CASE jobs[j].routine = "seasons" -> "season"
               [] jobs[j].routine = "circuits" -> "circuit"
               [] jobs[j].routine = "drivers" -> "driver"
               [] jobs[j].routine = "teams" -> "team"
               [] jobs[j].routine = "rounds" -> "round"
               [] jobs[j].routine = "team_drivers" -> "team_driver"
               [] OTHER -> "session"
    IN IF t = "session" THEN Len(Created(j, "session"))
       ELSE Len(K[t]) - jobs[j].pre[t]

\* C28: within one job the result is deterministic: the rows a routine
\* creates, their order and the counts it returns are a function of the store
\* it began on, of its arguments (with the year of the clock where end_year is
\* left out) and of the upstream responses: records in the order of the
\* upstream list, and for each round race, qualifying, sprint, practice1,
\* practice2, practice3.
C28_Deterministic ==
    \A j \in JobIds :
        jobs[j].status = "returned" =>
            LET held == [t \in KeyedTables |-> keys_upto(t, jobs[j].pre[t])]
                K == after_job(held, jobs[j])
            IN /\ \A t \in KeyedTables :
                     keys_upto(t, jobs[j].pre[t] + Len(Created(j, t))) = K[t]
               /\ sessions_in_call_order(j)
               /\ jobs[j].routine # "all" => jobs[j].ret = count_of(j, K)
               /\ jobs[j].routine = "all" =>
                     /\ jobs[j].results.seasons = Len(K.season) - jobs[j].pre.season
                     /\ jobs[j].results.drivers = Len(K.driver) - jobs[j].pre.driver
                     /\ jobs[j].results.teams = Len(K.team) - jobs[j].pre.team
                     /\ jobs[j].results.rounds = Len(K.round) - jobs[j].pre.round
                     /\ jobs[j].results.team_drivers =
                           Len(K.team_driver) - jobs[j].pre.team_driver

\* a full import of 2000 whose sprint fetch of round 2 failed, and a round
\* import of 2000 behind it: the first created both rounds in the order of
\* the race list and their sessions in the order of the types, the second
\* found both rounds and created nothing
C28_Witness ==
    /\ jobs[1].routine = "all" /\ jobs[1].start_year = 2000 /\ jobs[1].end_year = 2000
    /\ jobs[1].status = "returned" /\ jobs[1].results.rounds = 2
    /\ jobs[1].failed = 1
    /\ Len(jobs[1].calls) = 2 /\ ~jobs[1].calls[2].sprint
    /\ SessionTypes(Created(1, "session")) =
         <<"race", "qualifying", "practice1", "practice2", "practice3",
           "race", "qualifying", "practice1", "practice2", "practice3">>
    /\ jobs[2].routine = "rounds" /\ jobs[2].season_year = 2000
    /\ jobs[2].status = "returned" /\ jobs[2].ret = 0

----------------------------------------------------------------------------
\* one step of job j in import_sessions_for_round, its race not found
C29_Step(j) ==
    LET a == jobs[j]
        b == jobs'[j]
        moved == a.status = "running" /\ b # a /\ b.status # "killed"
    IN \* the scan finds no race: nothing is created, the routine is at its end
       /\ (moved /\ a.pc = "s_fetch" /\ b.sess.race_info = None) =>
             /\ b.status = "running" /\ b.pc = "s_ret" /\ b.sess.count = 0
             /\ b.sess.quali_data = <<>> /\ b.sess.sprint_data = <<>>
             /\ db' = db
       \* it returns 0 with no fetch in between, and no Session of its own
       /\ (moved /\ a.pc = "s_ret" /\ a.sess.race_info = None) =>
             /\ db' = db /\ Len(db.session) = a.sess.first
             /\ b.failed = a.failed
             /\ LET c == b.calls[Len(b.calls)]
                IN /\ Len(b.calls) = Len(a.calls) + 1
                   /\ c.count = 0 /\ ~c.found /\ ~c.quali /\ ~c.sprint
             /\ a.routine = "sessions" => b.status = "returned" /\ b.ret = 0
             \* in the cascade the Round stays, without Sessions, and counted
             /\ a.routine # "sessions" =>
                   /\ b.status = "running"
                   /\ db.round[Len(db.round)].id = a.sess.round_id
                   /\ session_types_of(db.session, a.sess.round_id) = <<>>
                   /\ b.count = a.count
                   /\ b.count = Len(db.round) - a.cpre.round

\* C29: if the race list re-fetched inside import_sessions_for_round is empty
\* or has no entry of the round number, the routine returns 0, creates no
\* Session at all, not the race session either, and issues no qualifying or
\* sprint fetch; in the cascade of a newly created Round the Round stays in
\* the store with zero Sessions, and the round count is still incremented.
C29_NotFoundReturnsZero == [][\A j \in JobIds : C29_Step(j)]_vars

\* a round import of 1999 created the Round; the re-fetch of the race list
\* failed, and the import returned 1 with no Session in the store
C29_Witness ==
    \E j \in JobIds :
        /\ jobs[j].routine = "rounds" /\ jobs[j].season_year = 1999
        /\ jobs[j].status = "returned" /\ jobs[j].ret = 1
        /\ Len(jobs[j].calls) = 1 /\ ~jobs[j].calls[1].found
        /\ Len(db.round) = 1 /\ db.session = <<>>

----------------------------------------------------------------------------
\* one step of job j in a year of which the store has no Season
C30_Step(j) ==
    LET a == jobs[j]
        b == jobs'[j]
        y == a.season_year
        moved == /\ a.status = "running" /\ b # a /\ b.status # "killed"
                 /\ get_season_by_year(db, y) = None
    IN \* the team-driver import fetches the pairings all the same
       /\ (moved /\ a.cur = "team_drivers" /\ a.pc = "fetch") =>
             /\ \E f \in b.flog \ a.flog : f.resource = "standings" /\ f.season = y
             /\ b.pc \in {"loop", "ret"}
             /\ ~fetch_failed(b, "standings", y)
                   => b.data = pairings(UpStandings(y), y)
       \* and creates the row of a pairing whose Driver and Team exist
       /\ (moved /\ a.cur = "team_drivers" /\ a.pc = "loop") =>
             LET pairing == a.data[a.i]
                 wanted == /\ get_driver_by_reference(db, pairing.driverId) # None
                           /\ get_team_by_reference(db, pairing.constructorId) # None
                           /\ ~Paired(pairing.driverId, pairing.constructorId, y)
             IN /\ wanted => /\ Len(db'.team_driver) = Len(db.team_driver) + 1
                             /\ b.count = a.count + 1
                             /\ LET row == db'.team_driver[Len(db'.team_driver)]
                                IN /\ row.season_year = y
                                   /\ db'.driver[row.driver_id].reference
                                        = pairing.driverId
                                   /\ db'.team[row.team_id].reference
                                        = pairing.constructorId
                /\ ~wanted => db' = db /\ b.count = a.count
       \* while the round import of that year returns 0 without a fetch
       /\ (moved /\ a.cur = "rounds" /\ a.pc = "fetch") =>
             /\ b.pc = "ret" /\ b.count = 0 /\ b.flog = a.flog /\ db' = db

\* C30: the team-driver import is not gated on the Season:
\* import_team_drivers_for_season(year) creates TeamDriver rows whenever the
\* Driver and the Team exist, also when there is no Season row of that year;
\* so in import_all_f1_data a year whose Season is missing contributes 0
\* rounds and can still contribute TeamDriver rows.
C30_NoSeasonGate == [][\A j \in JobIds : C30_Step(j)]_vars

\* a full import of 1999 on the empty store whose seasons fetch failed has
\* returned: no Season, no Round, and the TeamDriver row of hakkinen and
\* mclaren for 1999
C30_Witness ==
    \E j \in JobIds :
        /\ jobs[j].routine = "all" /\ jobs[j].status = "returned"
        /\ jobs[j].start_year = 1999 /\ jobs[j].end_year = 1999
        /\ fetch_failed(jobs[j], "seasons", 0)
        /\ db.season = <<>> /\ db.round = <<>>
        /\ jobs[j].results.rounds = 0 /\ jobs[j].results.team_drivers = 1
        /\ Paired("hakkinen", "mclaren", 1999)

----------------------------------------------------------------------------
\* the session rows the call of job j that is under way has created so far
rows_of_call(j) == Since(db.session, jobs[j].sess.first)

\* C31: one call of import_sessions_for_round never creates both a "sprint"
\* and a "practice3" Session, never creates two Sessions of one type, creates
\* at most 5 Sessions, at most 3 in a year before 2000, and the value it
\* returns is the number of Session rows it created.
C31_CallBounded ==
    /\ \A k \in 1..Len(AllCalls) :
          LET c == AllCalls[k]
              types == SessionTypes(CreatedBy(c))
          IN /\ ~({"sprint", "practice3"} \subseteq Seq2Set(types))
             /\ Cardinality(Seq2Set(types)) = Len(types)
             /\ Len(types) <= (IF c.season_year < ModernEra THEN 3 ELSE 5)
    /\ \A j \in JobIds :
          /\ (jobs[j].status = "running" /\ jobs[j].pc \in InSessions) =>
                jobs[j].sess.count = Len(rows_of_call(j))
          /\ (jobs[j].routine = "sessions" /\ jobs[j].status = "returned") =>
                /\ jobs[j].ret = Len(Created(j, "session"))
                /\ jobs[j].ret = jobs[j].calls[1].count

\* a full import of 1999 and 2000 has made its three calls: three Sessions
\* for the round of 1999, five for round 1 of 2000 with its third practice,
\* five for round 2 with its sprint
C31_Witness ==
    \E j \in JobIds :
        /\ jobs[j].routine = "all" /\ Len(jobs[j].calls) = 3
        /\ jobs[j].calls[1].season_year = 1999 /\ jobs[j].calls[1].count = 3
        /\ jobs[j].calls[2].count = 5
        /\ "practice3" \in Seq2Set(SessionTypes(CreatedBy(jobs[j].calls[2])))
        /\ jobs[j].calls[3].count = 5
        /\ "sprint" \in Seq2Set(SessionTypes(CreatedBy(jobs[j].calls[3])))

----------------------------------------------------------------------------
(* C32 *)

C32_Step(j) ==
    LET a == jobs[j]
        b == jobs'[j]
        moved == /\ a.status = "running" /\ a.cur = "rounds"
                 /\ b # a /\ b.status = "running"
        race_data == a.data[a.i]
        held == {k \in 1..Len(db.circuit) :
                    db.circuit[k].reference = race_data.Circuit.circuitId}
        round_exists ==
            \E k \in 1..Len(db.round) :
               db.round[k].reference =
                  round_reference_of(a.season_year, race_data.round)
    IN \* the circuit is settled first, whether or not the Round exists
       /\ (moved /\ a.pc = "loop") =>
             /\ b.pc = "round" /\ b.i = a.i /\ b.count = a.count
             /\ db'.round = db.round
             /\ held # {} => db' = db /\ \E k \in held : b.circuit_id = db.circuit[k].id
             /\ held = {} =>
                   /\ db' = [db EXCEPT !.circuit = db'.circuit]
                   /\ Len(db'.circuit) = Len(db.circuit) + 1
                   /\ SubSeq(db'.circuit, 1, Len(db.circuit)) = db.circuit
                   /\ LET row == db'.circuit[Len(db'.circuit)]
                      IN /\ row.reference = race_data.Circuit.circuitId
                         /\ row.id = b.circuit_id
                         /\ \A k \in 1..Len(db.circuit) : db.circuit[k].id # row.id
       \* a Round that exists is passed over, and not counted
       /\ (moved /\ a.pc = "round" /\ round_exists) =>
             /\ db' = db /\ b.count = a.count
             /\ b.pc \in {"loop", "ret"} /\ b.pc = "loop" => b.i = a.i + 1
       \* the routine returns its count of Rounds; in import_all_f1_data the
       \* count goes to 'rounds' and 'circuits' stays as it was
       /\ (a.status = "running" /\ a.cur = "rounds" /\ a.pc = "ret" /\ b # a
           /\ b.status # "killed") =>
             /\ a.count = Len(db.round) - a.cpre.round
             /\ a.routine = "rounds" => b.status = "returned" /\ b.ret = a.count
             /\ a.routine = "all" =>
                   /\ b.results.rounds = a.results.rounds + a.count
                   /\ b.results.circuits = a.results.circuits

\* C32: in import_rounds_for_season the Circuit is resolved or created before
\* the Round's existence check, so a race whose Round exists but whose Circuit
\* is missing still gets a new Circuit row while no Round is created; the
\* circuits created inline are counted neither in the routine's return value
\* nor in the 'circuits' count of import_all_f1_data.
C32_CircuitRegardlessOfRound == [][\A j \in JobIds : C32_Step(j)]_vars

\* a circuit of the store was renamed after its Rounds were imported; the next
\* round import created the Circuit again, created no Round and returned 0
C32_Witness ==
    \E j \in JobIds :
       /\ jobs[j].routine = "rounds" /\ jobs[j].status = "returned"
       /\ jobs[j].ret = 0
       /\ jobs[j].pre.round > 0 /\ Len(db.round) = jobs[j].pre.round
       /\ Len(db.circuit) > jobs[j].pre.circuit
       /\ \E k \in 1..Len(db.circuit) : db.circuit[k].reference = "renamed"

----------------------------------------------------------------------------
(* C33 *)

\* the table an import routine fills
kind_of(cur) ==
    CASE cur = "seasons" -> "season" [] cur = "circuits" -> "circuit"
      [] cur = "drivers" -> "driver" [] cur = "teams" -> "team"
      [] cur = "rounds" -> "round" [] cur = "team_drivers" -> "team_driver"

BaseFetches == {"seasons", "circuits", "drivers", "constructors"}

C33_Step(j) ==
    LET a == jobs[j]
        b == jobs'[j]
        returns == /\ a.status = "running" /\ a.pc = "ret" /\ b # a
                   /\ b.status # "killed" /\ a.cur \in SingleRoutines
        made == Len(db[kind_of(a.cur)]) - a.cpre[kind_of(a.cur)]
    IN \* a routine called on its own returns the rows of its kind it created
       /\ (returns /\ a.routine # "all") =>
             /\ b.status = "returned" /\ b.ret = made /\ db' = db
       /\ (a.status = "running" /\ a.routine = "sessions" /\ b.status = "returned") =>
             /\ b.ret = Len(db.session) - a.sess.first /\ db' = db
       \* in import_all_f1_data that value is added to the routine's category,
       \* and the other categories stay
       /\ (returns /\ a.routine = "all") =>
             /\ b.results = [a.results EXCEPT ![a.cur] = @ + made]
             /\ db' = db
             \* the years are gone through from start_year to end_year, the
             \* rounds of a year and then its team-drivers
             /\ a.cur = "teams" =>
                   IF a.start_year > a.end_year THEN b.status = "returned"
                   ELSE /\ b.cur = "rounds" /\ b.season_year = a.start_year
                        /\ b.status = "running"
             /\ a.cur = "rounds" =>
                   /\ b.cur = "team_drivers" /\ b.season_year = a.season_year
                   /\ b.status = "running"
                   /\ a.season_year \in a.start_year..a.end_year
             /\ a.cur = "team_drivers" =>
                   /\ a.season_year \in a.start_year..a.end_year
                   /\ IF a.season_year = a.end_year THEN b.status = "returned"
                      ELSE /\ b.cur = "rounds" /\ b.status = "running"
                           /\ b.season_year = a.season_year + 1
             /\ a.cur \in {"seasons", "circuits", "drivers"} =>
                   /\ b.status = "running" /\ b.season_year = 0
                   /\ a.results.rounds = 0 /\ a.results.team_drivers = 0
             \* what it returns: a category holds the rows of its kind the job
             \* created, the sum over its calls (the circuits that the round
             \* imports created are in no category)
             /\ b.status = "returned" =>
                   /\ \A c \in SingleRoutines \ {"circuits"} :
                         b.results[c] = Len(db[kind_of(c)]) - a.pre[kind_of(c)]
                   /\ {f.season : f \in {f \in b.flog : f.resource = "standings"}}
                         = a.start_year..a.end_year
                   \* start_year > end_year: the four base imports have run,
                   \* no other, and the two sums are zero
                   /\ a.start_year > a.end_year =>
                         /\ b.results.rounds = 0 /\ b.results.team_drivers = 0
                         /\ {f.resource : f \in b.flog} = BaseFetches

\* C33: every import routine's return value equals the number of rows of its
\* own entity kind that it created during that call, and in the result of
\* import_all_f1_data 'rounds' and 'team_drivers' are the sums of the per-year
\* return values over the years start_year..end_year: both 0 when
\* start_year > end_year, in which case the four base imports still run.
C33_ReturnsAreCounts == [][\A j \in JobIds : C33_Step(j)]_vars

\* one import of everything with start_year 2000 and end_year 1999 has
\* returned the counts of its four base imports (no Season lies in its
\* range), its sums zero; a second one of 1999 to 2000 has returned the
\* Rounds of both years
C33_Witness ==
    /\ jobs[1].routine = "all" /\ jobs[1].status = "returned"
    /\ jobs[1].start_year = 2000 /\ jobs[1].end_year = 1999
    /\ jobs[1].results.rounds = 0 /\ jobs[1].results.team_drivers = 0
    /\ jobs[1].results.seasons = 0 /\ jobs[1].results.circuits > 0
    /\ jobs[1].results.drivers > 0 /\ jobs[1].results.teams > 0
    /\ jobs[2].routine = "all" /\ jobs[2].status = "returned"
    /\ jobs[2].start_year = 1999 /\ jobs[2].end_year = 2000
    /\ jobs[2].results.rounds = 3 /\ jobs[2].results.team_drivers > 1

----------------------------------------------------------------------------
(* C34 *)

C34_Step ==
    \* the body is the constant one, in the state left and the state entered
    /\ get_import_status = [status |-> "No import in progress"]
    /\ get_import_status' = [status |-> "No import in progress"]
    \* every poll so far was answered with it
    /\ \A j \in JobIds :
          jobs'[j].seen \in {"none", "No import in progress"}
    \* a step of an import routine changes nothing of what the endpoint gives
    /\ get_import_status' = get_import_status

\* C34: the import status endpoint returns the same constant body in every
\* state of the system: before any import, while an import job is running,
\* and after a job has succeeded or failed; no import routine writes any
\* state that the endpoint reads.
C34_StatusConstant == [][C34_Step]_vars

\* the first job has died of an exception and the second is running; the
\* polls made for each, the second while it was running with the first one
\* dead, were answered
C34_Witness ==
    /\ jobs[1].status = "raised" /\ jobs[1].seen = "No import in progress"
    /\ jobs[2].status = "running" /\ jobs[2].pc = "loop"
    /\ jobs[2].seen = "No import in progress"

----------------------------------------------------------------------------
(* C35 *)

\* whether a row has the n-th natural key the calls are made with
has_key(table, row, n) ==
    CASE table = "season" -> row.year = RepoYears[n]
      [] table = "round" -> row.reference = RepoRoundReferences[n]
      [] OTHER -> row.reference = RepoReferences[n]

C35_Step(j) ==
    LET a == jobs[j]
        b == jobs'[j]
        called == a.status = "idle" /\ b.routine \in RepoOps
        rows == db[b.table]
        with == {k \in 1..Len(rows) : rows[k].id = b.arg}
        keyed == {k \in 1..Len(rows) : has_key(b.table, rows[k], b.arg)}
    IN called =>
         /\ b.status \in {"returned", "raised"}
         \* by id: NotFound where no row has the id, and the store is as it was
         /\ (b.routine \in {"get", "update", "delete"} /\ with = {}) =>
               /\ b.status = "raised" /\ b.error = "NotFound"
               /\ b.row = None /\ db' = db
         /\ (b.routine \in {"get", "update", "delete"} /\ with # {}) =>
               b.error # "NotFound"
         /\ (b.routine = "get" /\ with # {}) =>
               /\ b.status = "returned" /\ db' = db
               /\ \E k \in with : b.row = Some(rows[k])
         \* by natural key: absent, and no error, where no row has the key
         /\ b.routine = "get_by_natural_key" =>
               /\ b.status = "returned" /\ b.error = "none" /\ db' = db
               /\ keyed = {} => b.row = None
               /\ keyed # {} => \E k \in keyed : b.row = Some(rows[k])
         \* a call that fails leaves the store as it was
         /\ b.status = "raised" => db' = db

\* C35: for every entity type, get-by-surrogate-id fails with NotFound (404)
\* when no row has that id, whereas get-by-natural-key (season by year;
\* circuit, driver, team, round by reference) returns absent without an error
\* when no row matches; update and delete of an id with no row fail with
\* NotFound and leave the store unchanged.
C35_LookupsAndNotFound == [][\A j \in JobIds : C35_Step(j)]_vars

\* the store holds what an import of everything left; an update of a circuit
\* id that no row has has failed with NotFound
C35_Witness ==
    /\ jobs[1].routine = "all" /\ jobs[1].status = "returned"
    /\ Len(db.circuit) > 0 /\ Len(db.round) > 0
    /\ jobs[2].routine = "update" /\ jobs[2].table = "circuit"
    /\ jobs[2].status = "raised" /\ jobs[2].error = "NotFound"
    /\ \A k \in 1..Len(db.circuit) : db.circuit[k].id # jobs[2].arg

----------------------------------------------------------------------------
(* C36 *)

\* the date a text stands for, None where it stands for none
date_of_text(text) ==
    CASE text = Some("1968-09-28") -> Some([year |-> 1968, month |-> 9, day |-> 28])
      [] text = Some("1969-01-03") -> Some([year |-> 1969, month |-> 1, day |-> 3])
      [] OTHER -> None

C36_Step(j) ==
    LET a == jobs[j]
        b == jobs'[j]
        text == a.data[a.i].dateOfBirth
    IN (a.status = "running" /\ a.cur = "drivers" /\ a.pc = "loop" /\ b # a) =>
          \* the call comes back, whatever the text
          /\ b.status = "running" /\ b.error = "none"
          /\ b.count = a.count + 1
          \* with the date of a valid text, and None for any other
          /\ Len(db'.driver) = Len(db.driver) + 1
          /\ LET row == db'.driver[Len(db'.driver)]
             IN /\ row.reference = a.data[a.i].driverId
                /\ row.date_of_birth = date_of_text(text)
                /\ text \in {None, Some(""), Some("28/09/1968"), Some("2000-02-30")}
                      => row.date_of_birth = None

\* C36: parse_date returns absent for an empty or absent input and for any
\* text that is not a valid YYYY-MM-DD date, returns the corresponding date
\* for a valid one, and never raises to its caller.
C36_ParseDateTotal == [][\A j \in JobIds : C36_Step(j)]_vars

\* the import went through a list with a date in another notation, a day
\* that is not in the calendar and a valid date: three drivers, the first two
\* without a birth date
C36_Witness ==
    /\ jobs[1].status = "running" /\ jobs[1].pc = "ret" /\ jobs[1].count = 3
    /\ jobs[1].data[1].dateOfBirth = Some("28/09/1968")
    /\ jobs[1].data[2].dateOfBirth = Some("2000-02-30")
    /\ jobs[1].data[3].dateOfBirth = Some("1969-01-03")
    /\ db.driver[1].date_of_birth = None
    /\ db.driver[2].date_of_birth = None
    /\ db.driver[3].date_of_birth = Some([year |-> 1969, month |-> 1, day |-> 3])

----------------------------------------------------------------------------
(* C37 *)

\* C37: every Team row created by import_teams has constructor_id equal to its
\* reference, and every Circuit row created by import, by import_circuits or
\* inline by import_rounds_for_season, has country_code and altitude absent.
C37_FixedFields ==
    /\ \A k \in 1..Len(db.team) :
          db.team[k].constructor_id = db.team[k].reference
    /\ \A k \in 1..Len(db.circuit) :
          db.circuit[k].country_code = None /\ db.circuit[k].altitude = None

\* the circuit list of an import of everything failed, so that its round
\* import created a Circuit inline; a circuit import then created the other
\* one; the teams are in the store
C37_Witness ==
    /\ jobs[1].routine = "all" /\ jobs[1].status = "returned"
    /\ jobs[1].results.circuits = 0 /\ jobs[1].results.rounds = 1
    /\ jobs[1].results.teams = Len(db.team) /\ Len(db.team) > 0
    /\ jobs[2].routine = "circuits" /\ jobs[2].status = "returned"
    /\ jobs[2].pre.circuit = 1 /\ jobs[2].ret = 1 /\ Len(db.circuit) = 2

============================================================================
